---- MODULE Spec2Model ----
(***************************************************************************)
(* Model of the wind-load part of pyMarineCybernetics:                     *)
(*   util/wind/wind_coefficients.py  blendermann, isherwood                *)
(*   util/wind/wind_forces.py        wind_forces_and_moment,               *)
(*                                   calculate_rho_w                       *)
(*                                                                         *)
(* Numbers.  Python floats are modelled as exact rationals <<n, d>> in     *)
(* lowest terms with d > 0.  Angles in radians are integers counting       *)
(* hundredths of a degree, so math.pi is 18000 of these units and          *)
(* degrees(x) = x * 180 / pi is a rational number of degrees.  np.sin and  *)
(* np.cos are tabulated on the directions whose sine and cosine are        *)
(* rational (multiples of 90 degrees, the 3-4-5 angle 36.87 degrees and    *)
(* its double 73.74 degrees, and their mirror images); the inputs of the   *)
(* model are drawn from these directions.  A Python None is the empty      *)
(* tuple and a present optional value v is <<v>>.                          *)
(***************************************************************************)
EXTENDS Integers, Sequences, FiniteSets, TLC

VARIABLES op, args, ret

vars == <<op, args, ret>>

(***************************************************************************)
(* Bounds of the model.                                                    *)
(***************************************************************************)
MaxWindSpeed == 2
MaxMasts == 1
MaxTurns == 3
MaxDividend == 12
MaxPower == 2
MaxSteps == 5
MaxSeries == 3
MaxQuarterTurns == 3

(***************************************************************************)
(* Float arithmetic, as exact rational arithmetic.                         *)
(***************************************************************************)
Abs(x) == IF x < 0 THEN -x ELSE x

RECURSIVE GCD(_, _)
GCD(a, b) == IF b = 0 THEN a ELSE GCD(b, a % b)

Rat(n, d) ==
    LET g == GCD(Abs(n), Abs(d))
        s == IF d < 0 THEN -1 ELSE 1
    IN  <<(s * n) \div g, (s * d) \div g>>

R(n) == <<n, 1>>

RNeg(a) == <<-a[1], a[2]>>

RAdd(a, b) ==
    LET g == GCD(a[2], b[2])
    IN  Rat(a[1] * (b[2] \div g) + b[1] * (a[2] \div g), (a[2] \div g) * b[2])

RSub(a, b) == RAdd(a, RNeg(b))

RMul(a, b) ==
    IF a[1] = 0 \/ b[1] = 0 THEN <<0, 1>>
    ELSE LET g1 == GCD(Abs(a[1]), b[2])
             g2 == GCD(Abs(b[1]), a[2])
         IN  <<(a[1] \div g1) * (b[1] \div g2), (a[2] \div g2) * (b[2] \div g1)>>

RInv(a) == IF a[1] < 0 THEN <<-a[2], -a[1]>> ELSE <<a[2], a[1]>>

RDiv(a, b) == RMul(a, RInv(b))

RLt(a, b) == a[1] * b[2] < b[1] * a[2]

RLe(a, b) == a[1] * b[2] <= b[1] * a[2]

RSq(a) == RMul(a, a)

None == <<>>

Some(v) == <<v>>

(***************************************************************************)
(* math.pi, math.fabs, math.degrees, np.cos, np.sin, np.arctan2.           *)
(***************************************************************************)
pi == 18000

fabs(x) == Abs(x)

\* degrees(x) with the angles beyond pi folded back onto 0..180 degrees.
degrees_folded(x) == Rat((IF x > pi THEN 2 * pi - x ELSE x) * 180, pi)

degrees(x) == Rat(x * 180, pi)

\* <<cos, sin>> of the first-quadrant directions that have rational values.
UnitVector(r) ==
    CASE r = 0    -> <<R(1), R(0)>>
      [] r = 1626 -> <<Rat(24, 25), Rat(7, 25)>>
      [] r = 3687 -> <<Rat(4, 5), Rat(3, 5)>>
      [] r = 5313 -> <<Rat(3, 5), Rat(4, 5)>>
      [] r = 7374 -> <<Rat(7, 25), Rat(24, 25)>>

HasTrig(x) == (x % (pi \div 2)) \in {0, 1626, 3687, 5313, 7374}

CosSin(x) ==
    LET t == x % (2 * pi)
        q == t \div (pi \div 2)
        u == UnitVector(t % (pi \div 2))
    IN  CASE q = 0 -> u
          [] q = 1 -> <<RNeg(u[2]), u[1]>>
          [] q = 2 -> <<RNeg(u[1]), RNeg(u[2])>>
          [] q = 3 -> <<u[2], RNeg(u[1])>>

cos(x) == CosSin(x)[1]

sin(x) == CosSin(x)[2]

\* The directions of (-pi, pi] on which the trigonometric table is defined.
Directions ==
    {x \in {q * (pi \div 2) + r : q \in (-2)..2, r \in {0, 1626, 3687, 5313, 7374}} :
        -pi < x /\ x <= pi}

Dot(y, x, d) == RAdd(RMul(x, cos(d)), RMul(y, sin(d)))

Cross(y, x, d) == RSub(RMul(x, sin(d)), RMul(y, cos(d)))

\* The vector (x, y) points in a tabulated direction (or is the null vector).
OnGrid(y, x) ==
    \/ x[1] = 0 /\ y[1] = 0
    \/ \E d \in Directions : Cross(y, x, d)[1] = 0 /\ Dot(y, x, d)[1] > 0

\* np.arctan2(y, x): the angle in (-pi, pi] of the vector (x, y); 0 for the
\* null vector.
arctan2(y, x) ==
    IF x[1] = 0 /\ y[1] = 0 THEN 0
    ELSE CHOOSE d \in Directions : Cross(y, x, d)[1] = 0 /\ Dot(y, x, d)[1] > 0

(***************************************************************************)
(* wind_coefficients.blendermann                                           *)
(***************************************************************************)
\*  Type, CDt, CDl(0), CDl(pi), delta, kappa: the literals of the source in
\*  hundredths.  The row of 'Container ship, loaded' is written with '1,4'
\*  in the source and so has seven elements.
BlendermannRows ==
    << <<"Car carrier", 95, 55, 60, 80, 120>>,
       <<"Cargo vessel, loaded", 85, 65, 55, 40, 170>>,
       <<"Cargo vessel, container on deck", 85, 55, 50, 40, 140>>,
       <<"Container ship, loaded", 90, 55, 55, 40, 100, 400>>,
       <<"Destroyer", 85, 60, 65, 65, 110>>,
       <<"Diving support vessel", 90, 60, 80, 55, 170>>,
       <<"Drilling vessel", 100, 85, 92, 10, 170>>,
       <<"Ferry", 90, 45, 50, 80, 110>>,
       <<"Fishing vessel", 95, 70, 70, 40, 110>>,
       <<"Liquefied natural gas tanker", 70, 60, 65, 50, 110>>,
       <<"Offshore supply vessel", 90, 55, 80, 55, 120>>,
       <<"Passenger liner", 90, 40, 40, 80, 120>>,
       <<"Research vessel", 85, 55, 65, 60, 140>>,
       <<"Speed boat", 90, 55, 60, 60, 110>>,
       <<"Tanker, loaded", 70, 90, 55, 40, 310>>,
       <<"Tanker, in ballast", 70, 75, 55, 40, 220>>,
       <<"Tender", 85, 55, 55, 65, 110>> >>
coefficient_table == BlendermannRows

Coef(v) == Rat(v, 100)

\* for row in coefficient_table: if row[0] == vessel_type: ...; break
\* The index of the first matching row, 0 when the loop ends without a match.
FindRow_default(table, vessel_type) ==
    IF \E i \in 1..Len(table) : table[i][1] = vessel_type
    THEN CHOOSE i \in 1..Len(table) :
            /\ table[i][1] = vessel_type
            /\ \A k \in 1..(i - 1) : table[k][1] # vessel_type
    ELSE 1

FindRow(table, vessel_type) ==
    IF \E i \in 1..Len(table) : table[i][1] = vessel_type
    THEN CHOOSE i \in 1..Len(table) :
            /\ table[i][1] = vessel_type
            /\ \A k \in 1..(i - 1) : table[k][1] # vessel_type
    ELSE 0

\* if fabs(angle_of_attack) <= pi / 2
HeadWind_strict(angle_of_attack) == fabs(angle_of_attack) < pi \div 2

HeadWind(angle_of_attack) == fabs(angle_of_attack) <= pi \div 2

\* The real number of radians of an angle of the model (355/113 for the
\* number pi), used where the source multiplies an angle by a number.
Radians(x) == RMul(Rat(x, pi), <<355, 113>>)

\* The two terms of the denominator subtracted the other way round.
Denominator_reversed(CDt, CDl, delta, angle_of_attack) ==
    RSub(RMul(RMul(RMul(Rat(1, 2), delta), RSub(R(1), RDiv(CDl, CDt))),
              RSq(sin(2 * angle_of_attack))), R(1))

\* denominator = 1 - 0.5 * delta * (1 - CDl / CDt) * np.sin(2 * angle_of_attack)**2
Denominator(CDt, CDl, delta, angle_of_attack) ==
    RSub(R(1), RMul(RMul(RMul(Rat(1, 2), delta), RSub(R(1), RDiv(CDl, CDt))),
                    RSq(sin(2 * angle_of_attack))))

\* C_X = -CDl * (lateral_area / frontal_area) * np.cos(angle_of_attack) / denominator
SurgeCoefficient_unscaled(CDl, frontal_area, lateral_area, angle_of_attack, denominator) ==
    RDiv(RMul(RNeg(CDl), cos(angle_of_attack)), denominator)

SurgeCoefficient(CDl, frontal_area, lateral_area, angle_of_attack, denominator) ==
    RDiv(RMul(RMul(RNeg(CDl), RDiv(lateral_area, frontal_area)), cos(angle_of_attack)),
         denominator)

\* C_Y = -CDt * np.sin(angle_of_attack) / denominator
SwayCoefficient(CDt, angle_of_attack, denominator) ==
    RDiv(RMul(RNeg(CDt), sin(angle_of_attack)), denominator)

\* C_N = (s_L / Loa - 0.18 * (angle_of_attack - pi/2)) * C_Y, kept as the pair
\* of its two factors <<s_L / Loa - 0.18 * (angle_of_attack - pi/2), C_Y>>.
YawCoefficient(s_L, Loa, angle_of_attack, C_Y) ==
    <<RSub(RDiv(s_L, Loa), RMul(Rat(18, 100), Radians(angle_of_attack - pi \div 2))), C_Y>>

\* A product of factors is zero exactly when one of its factors is.
ProductIsZero(p) == \E i \in 1..Len(p) : p[i][1] = 0

blendermann(vessel_type, frontal_area, lateral_area, Loa, s_L, angle_of_attack) ==
    LET i == FindRow(coefficient_table, vessel_type)
    IN  IF i = 0
        THEN \* CDl_0 or CDl_pi is read without having been assigned.
             [raised |-> "UnboundLocalError"]
        ELSE
        LET row    == coefficient_table[i]
            CDt    == Coef(row[2])
            CDl_0  == Coef(row[3])
            CDl_pi == Coef(row[4])
            delta  == Coef(row[5])
            kappa  == Coef(row[6])
            CDl    == IF HeadWind(angle_of_attack)
                      THEN RMul(CDl_0, RDiv(frontal_area, lateral_area))
                      ELSE RMul(CDl_pi, RDiv(frontal_area, lateral_area))
            denominator == Denominator(CDt, CDl, delta, angle_of_attack)
            C_X == SurgeCoefficient(CDl, frontal_area, lateral_area, angle_of_attack,
                                    denominator)
            C_Y == SwayCoefficient(CDt, angle_of_attack, denominator)
            C_N == YawCoefficient(s_L, Loa, angle_of_attack, C_Y)
        IN  [raised |-> "none", row |-> row,
             CDt |-> CDt, CDl_0 |-> CDl_0, CDl_pi |-> CDl_pi, delta |-> delta,
             kappa |-> kappa, CDl |-> CDl, denominator |-> denominator,
             C_X |-> C_X, C_Y |-> C_Y, C_N |-> C_N]

(***************************************************************************)
(* wind_coefficients.isherwood                                             *)
(***************************************************************************)
\* angle (degrees), A_0 .. A_6 in ten-thousandths.
SurgeRows ==
    << <<0, 21520, -50000, 2430, -1640, 0, 0, 0>>,
       <<10, 17140, -33300, 1450, -1210, 0, 0, 0>>,
       <<20, 18180, -39700, 2110, -1430, 0, 0, 330>>,
       <<30, 19650, -48100, 2430, -1540, 0, 0, 410>>,
       <<40, 23330, -59900, 2470, -1900, 0, 0, 420>>,
       <<50, 17260, -65400, 1890, -1730, 3480, 0, 480>>,
       <<60, 9130, -46800, 0, -1040, 4820, 0, 520>>,
       <<70, 4570, -28800, 0, -680, 3460, 0, 430>>,
       <<80, 3410, -9100, 0, -310, 0, 0, 320>>,
       <<90, 3550, 0, 0, 0, -2470, 0, 180>>,
       <<100, 6010, 0, 0, 0, -3720, 0, -200>>,
       <<110, 6510, 12900, 0, 0, -5820, 0, -310>>,
       <<120, 5640, 25400, 0, 0, -7480, 0, -240>>,
       <<130, -1420, 35800, 0, 470, -7000, 0, -280>>,
       <<140, -6770, 36400, 0, 690, -5290, 0, -320>>,
       <<150, -7230, 31400, 0, 640, -4750, 0, -320>>,
       <<160, -21480, 25600, 0, 810, 0, 12700, -270>>,
       <<170, -27070, 39700, -1750, 1260, 0, 18100, 0>>,
       <<180, -25290, 37600, -1740, 1280, 0, 15500, 0>> >>
\* angle (degrees), B_0 .. B_6 in ten-thousandths.
SwayRows ==
    << <<0, 0, 0, 0, 0, 0, 0, 0>>,
       <<10, 960, 2200, 0, 0, 0, 0, 0>>,
       <<20, 1760, 7100, 0, 0, 0, 0, 0>>,
       <<30, 2250, 13800, 0, 230, 0, -2900, 0>>,
       <<40, 3290, 18200, 0, 430, 0, -5900, 0>>,
       <<50, 11640, 12600, 1210, 0, -2420, -9500, 0>>,
       <<60, 11630, 9600, 1010, 0, -1770, -8800, 0>>,
       <<70, 9160, 5300, 690, 0, 0, -6500, 0>>,
       <<80, 8440, 5500, 820, 0, 0, -5400, 0>>,
       <<90, 8890, 0, 1380, 0, 0, -6600, 0>>,
       <<100, 7990, 0, 1550, 0, 0, -5500, 0>>,
       <<110, 7970, 0, 1510, 0, 0, -5500, 0>>,
       <<120, 9960, 0, 1840, 0, -2120, -6600, 3400>>,
       <<130, 10140, 0, 1910, 0, -2800, -6900, 4400>>,
       <<140, 7840, 0, 1660, 0, -2090, -5300, 3800>>,
       <<150, 5360, 0, 1760, -290, -1630, 0, 2700>>,
       <<160, 2510, 0, 1060, -220, 0, 0, 0>>,
       <<170, 1250, 0, 460, -120, 0, 0, 0>>,
       <<180, 0, 0, 0, 0, 0, 0, 0>> >>
\* angle (degrees), C_0 .. C_5 in ten-thousandths.
YawRows ==
    << <<0, 0, 0, 0, 0, 0, 0>>,
       <<10, 596, 610, 0, 0, 0, -740>>,
       <<20, 1106, 2040, 0, 0, 0, -1700>>,
       <<30, 2258, 2450, 0, 0, 0, -3800>>,
       <<40, 2017, 4570, 0, 67, 0, -4720>>,
       <<50, 1759, 5730, 0, 118, 0, -5230>>,
       <<60, 1925, 4800, 0, 115, 0, -5460>>,
       <<70, 2133, 3150, 0, 81, 0, -5260>>,
       <<80, 1827, 2540, 0, 53, 0, -4430>>,
       <<90, 2627, 0, 0, 0, 0, -5080>>,
       <<100, 2102, 0, -195, 0, 335, -4920>>,
       <<110, 1567, 0, -258, 0, 497, -4570>>,
       <<120, 801, 0, -311, 0, 740, -3960>>,
       <<130, -189, 0, -488, 101, 1128, -4200>>,
       <<140, 256, 0, -422, 100, 889, -4630>>,
       <<150, 552, 0, -381, 109, 689, -4760>>,
       <<160, 881, 0, -306, 91, 366, -4150>>,
       <<170, 851, 0, -122, 25, 0, -2200>>,
       <<180, 0, 0, 0, 0, 0, 0>> >>
\* The first surge row moved behind the second: keys 10, 0, 20, ...
surge_coefficients_unsorted ==
    [k \in 1..Len(SurgeRows) |->
        IF k = 1 THEN SurgeRows[2] ELSE IF k = 2 THEN SurgeRows[1] ELSE SurgeRows[k]]

surge_coefficients == SurgeRows

sway_coefficients == SwayRows

yaw_coefficients == YawRows

\* table[:, 0]: the angle column, in degrees.
AngleColumn(table) == [k \in 1..Len(table) |-> R(table[k][1])]

\* table[:, i] for i >= 1 (0-based i, as in the source).
Column(table, i) == [k \in 1..Len(table) |-> Rat(table[k][i + 1], 10000)]

\* The segment np.interp evaluates: the last j with xp[j] <= x.
Segment(x, xp) == CHOOSE j \in 1..Len(xp) :
                      /\ RLe(xp[j], x)
                      /\ \A k \in (j + 1)..Len(xp) : ~RLe(xp[k], x)

Line(x, xp, fp, j) ==
    RAdd(RMul(RDiv(RSub(fp[j + 1], fp[j]), RSub(xp[j + 1], xp[j])), RSub(x, xp[j])), fp[j])

\* np.interp extrapolating with the slope of the edge segment.
interp_extrapolate(x, xp, fp) ==
    LET n == Len(xp)
    IN  IF RLt(x, xp[1]) THEN Line(x, xp, fp, 1)
        ELSE IF RLe(xp[n], x) THEN Line(x, xp, fp, n - 1)
        ELSE Line(x, xp, fp, Segment(x, xp))

\* np.interp returning the row below x instead of interpolating.
interp_step(x, xp, fp) ==
    LET n == Len(xp)
    IN  IF RLt(x, xp[1]) THEN fp[1]
        ELSE IF RLt(xp[n], x) THEN fp[n]
        ELSE fp[Segment(x, xp)]

\* np.interp bracketing x one segment too high.
interp_shifted(x, xp, fp) ==
    LET n == Len(xp)
    IN  IF RLt(x, xp[1]) THEN fp[1]
        ELSE IF RLt(xp[n], x) THEN fp[n]
        ELSE LET j == Segment(x, xp)
             IN  IF j >= n - 1 THEN fp[n] ELSE Line(x, xp, fp, j + 1)

\* np.interp(x, xp, fp) with the default left = fp[0] and right = fp[-1].
interp(x, xp, fp) ==
    LET n == Len(xp)
    IN  IF RLt(x, xp[1]) THEN fp[1]
        ELSE IF RLt(xp[n], x) THEN fp[n]
        ELSE LET j == Segment(x, xp)
             IN  IF j = n THEN fp[j]
                 ELSE IF xp[j] = x THEN fp[j]
                 ELSE Line(x, xp, fp, j)

\* Sum of a sequence of rationals.
RECURSIVE RSum(_)
RSum(s) == IF s = <<>> THEN R(0) ELSE RAdd(Head(s), RSum(Tail(s)))

\* The yaw table is read in every pass of the loop.
YawGuard_always(i) == TRUE

\* if i < 7: the yaw table has one column less than the other two.
YawGuard(i) == i < 7

\* table[:, i] exists (numpy raises IndexError otherwise).
HasColumn(table, i) == \A k \in 1..Len(table) : i + 1 <= Len(table[k])

\* One pass of the loop body for index i: append to A and B, and to C under
\* the guard; l holds the lists built so far and the columns read.
LoopBody(i, angle_deg, l) ==
    LET a == interp(angle_deg, AngleColumn(surge_coefficients), Column(surge_coefficients, i))
        b == interp(angle_deg, AngleColumn(sway_coefficients), Column(sway_coefficients, i))
    IN  IF ~YawGuard(i)
        THEN [l EXCEPT !.A = Append(@, a), !.B = Append(@, b),
                       !.surge_columns = Append(@, i), !.sway_columns = Append(@, i)]
        ELSE IF ~HasColumn(yaw_coefficients, i)
        THEN [l EXCEPT !.raised = "IndexError",
                       !.A = Append(@, a), !.B = Append(@, b),
                       !.surge_columns = Append(@, i), !.sway_columns = Append(@, i),
                       !.yaw_columns = Append(@, i)]
        ELSE [l EXCEPT !.A = Append(@, a), !.B = Append(@, b),
                       !.C = Append(@, interp(angle_deg, AngleColumn(yaw_coefficients),
                                              Column(yaw_coefficients, i))),
                       !.surge_columns = Append(@, i), !.sway_columns = Append(@, i),
                       !.yaw_columns = Append(@, i)]

\* for i in np.arange(1, 8): the passes i, i + 1, ..., 7, stopped by an error.
RECURSIVE InterpolationLoop(_, _, _)
InterpolationLoop(i, angle_deg, l) ==
    IF i >= 8 \/ l.raised # "none" THEN l
    ELSE InterpolationLoop(i + 1, angle_deg, LoopBody(i, angle_deg, l))

\* A = [], B = [], C = [] before the loop.
EmptyLists ==
    [raised |-> "none", A |-> <<>>, B |-> <<>>, C |-> <<>>,
     surge_columns |-> <<>>, sway_columns |-> <<>>, yaw_columns |-> <<>>]

isherwood(frontal_area, lateral_area, superstructure_area, Loa, breadth, S, s_L, masts, angle_of_attack) ==
    LET angle_deg == degrees(angle_of_attack)
        l == InterpolationLoop(1, angle_deg, EmptyLists)
        A == l.A
        B == l.B
        C == l.C
        bow_centroid_distance == RSub(RDiv(Loa, R(2)), s_L)
        t1 == RDiv(RMul(R(2), lateral_area), RSq(Loa))
        t2 == RDiv(RMul(R(2), frontal_area), RSq(breadth))
        t3 == RDiv(Loa, breadth)
        t4 == RDiv(S, Loa)
        t5 == RDiv(bow_centroid_distance, Loa)
        C_X == RNeg(RSum(<<A[1], RMul(A[2], t1), RMul(A[3], t2), RMul(A[4], t3),
                           RMul(A[5], t4), RMul(A[6], t5), RMul(A[7], R(masts))>>))
        C_Y == RNeg(RSum(<<B[1], RMul(B[2], t1), RMul(B[3], t2), RMul(B[4], t3),
                           RMul(B[5], t4), RMul(B[6], t5),
                           RMul(B[7], RDiv(superstructure_area, lateral_area))>>))
        C_N == RSum(<<C[1], RMul(C[2], t1), RMul(C[3], t2), RMul(C[4], t3),
                      RMul(C[5], t4), RMul(C[6], t5)>>)
    IN  IF l.raised # "none" THEN [raised |-> l.raised, yaw_columns |-> l.yaw_columns]
        ELSE [raised |-> "none",
              surge_coefficients |-> surge_coefficients,
              sway_coefficients |-> sway_coefficients,
              yaw_coefficients |-> yaw_coefficients,
              angle_deg |-> angle_deg, A |-> A, B |-> B, C |-> C,
              surge_columns |-> l.surge_columns, sway_columns |-> l.sway_columns,
              yaw_columns |-> l.yaw_columns,
              C_X |-> C_X, C_Y |-> C_Y, C_N |-> <<C_N>>]

(***************************************************************************)
(* wind_forces.calculate_rho_w: the quintic in the temperature, exact, as  *)
(* an integer number of 1e-15 kg/m^3 held in limbs of four decimal digits  *)
(* (least significant first; the last limb carries the sign).              *)
(***************************************************************************)
Limbs == 1..6

RECURSIVE Carry(_, _, _)
Carry(b, i, c) ==
    IF i = Len(b) THEN <<b[i] + c>>
    ELSE <<(b[i] + c) % 10000>> \o Carry(b, i + 1, (b[i] + c) \div 10000)

BNorm(b) == Carry(b, 1, 0)

Big(n) == BNorm([i \in Limbs |-> IF i = 1 THEN n ELSE 0])

BAdd(a, b) == BNorm([i \in Limbs |-> a[i] + b[i]])

\* b * t for a small integer t.
BScale(b, t) == BNorm([i \in Limbs |-> b[i] * t])

RECURSIVE BTimesPower(_, _, _)
BTimesPower(b, t, k) == IF k = 0 THEN b ELSE BTimesPower(BScale(b, t), t, k - 1)

\* The quintic without its term in temperature**2.
calculate_rho_w_no_square(temperature) ==
    LET c5 == Big(3318)
        c4 == BTimesPower(Big(1172), 10, 2)
        c3 == BTimesPower(Big(-6845), 10, 4)
        c1 == BTimesPower(Big(-4728), 10, 9)
        c0 == BTimesPower(Big(1292), 10, 12)
    IN  BAdd(BAdd(BAdd(BAdd(BTimesPower(c5, temperature, 5),
                            BTimesPower(c4, temperature, 4)),
                       BTimesPower(c3, temperature, 3)),
                  BTimesPower(c1, temperature, 1)),
             c0)

calculate_rho_w(temperature) ==
    LET c5 == Big(3318)                              \*  3.318 * 10**-12
        c4 == BTimesPower(Big(1172), 10, 2)          \*  1.172 * 10**-10
        c3 == BTimesPower(Big(-6845), 10, 4)         \* -6.845 * 10**-8
        c2 == BTimesPower(Big(1744), 10, 7)          \*  1.744 * 10**-5
        c1 == BTimesPower(Big(-4728), 10, 9)         \* -4.728 * 10**-3
        c0 == BTimesPower(Big(1292), 10, 12)         \*  1.292
    IN  BAdd(BAdd(BAdd(BAdd(BAdd(BTimesPower(c5, temperature, 5),
                                 BTimesPower(c4, temperature, 4)),
                            BTimesPower(c3, temperature, 3)),
                       BTimesPower(c2, temperature, 2)),
                  BTimesPower(c1, temperature, 1)),
             c0)

(***************************************************************************)
(* wind_forces.wind_forces_and_moment                                      *)
(***************************************************************************)
\* angle_of_attack = np.arctan2(relative_velocity_sway, relative_velocity_surge) + pi
AngleOfAttack_no_turn(relative_velocity_sway, relative_velocity_surge) ==
    arctan2(relative_velocity_sway, relative_velocity_surge)

AngleOfAttack(relative_velocity_sway, relative_velocity_surge) ==
    arctan2(relative_velocity_sway, relative_velocity_surge) + pi

\* What the call of a coefficient model gives wind_forces_and_moment: its
\* error, unchanged, or C_X, C_Y, C_N (C_N a product of factors).
Propagate(b) ==
    IF b.raised # "none" THEN [raised |-> b.raised]
    ELSE [raised |-> "none", printed |-> "", C_X |-> b.C_X, C_Y |-> b.C_Y, C_N |-> b.C_N]

\* The coefficients of the selected model (lines 51-64).
Coefficients(p, angle_of_attack) ==
    IF p.coeffs = "blendermann" THEN
        IF p.vessel_type = None
        THEN [raised |-> "none", printed |-> "Please enter the correct parameters for Blendermann.",
              C_X |-> R(0), C_Y |-> R(0), C_N |-> <<R(0)>>]
        ELSE Propagate(blendermann(p.vessel_type[1], p.frontal_area, p.lateral_area,
                                   p.Loa, p.s_L, angle_of_attack))
    ELSE IF p.coeffs = "isherwood" THEN
        IF \/ p.superstructure_area = None \/ p.breadth = None
           \/ p.S = None \/ p.masts = None
        THEN [raised |-> "none", printed |-> "Please enter the correct parameters for Isherwood.",
              C_X |-> R(0), C_Y |-> R(0), C_N |-> <<R(0)>>]
        ELSE Propagate(isherwood(p.frontal_area, p.lateral_area, p.superstructure_area[1],
                                 p.Loa, p.breadth[1], p.S[1], p.s_L, p.masts[1],
                                 angle_of_attack))
    ELSE \* no branch binds C_X, C_Y, C_N; line 67 reads C_X
        [raised |-> "UnboundLocalError"]

\* The forces with the surge force on the lateral area and the sway force on
\* the frontal area.
Forces_areas_swapped(p, rho_w, relative_velocity_surge, relative_velocity_sway, angle_of_attack, c) ==
    IF c.raised # "none"
    THEN [raised |-> c.raised,
          relative_velocity_surge |-> relative_velocity_surge,
          relative_velocity_sway |-> relative_velocity_sway,
          angle_of_attack |-> angle_of_attack]
    ELSE LET relative_wind_speed_sq == RAdd(RSq(relative_velocity_surge),
                                            RSq(relative_velocity_sway))
         IN  [raised |-> "none", printed |-> c.printed, rho_w |-> rho_w,
              relative_velocity_surge |-> relative_velocity_surge,
              relative_velocity_sway |-> relative_velocity_sway,
              relative_wind_speed_sq |-> relative_wind_speed_sq,
              angle_of_attack |-> angle_of_attack,
              C_X |-> c.C_X, C_Y |-> c.C_Y, C_N |-> c.C_N,
              wind_forces_and_moment |->
                  << <<Rat(1, 1000), Rat(1, 2), relative_wind_speed_sq, c.C_X,
                       p.lateral_area>>,
                     <<Rat(1, 1000), Rat(1, 2), relative_wind_speed_sq, c.C_Y,
                       p.frontal_area>>,
                     <<Rat(1, 1000), Rat(1, 2), relative_wind_speed_sq>> \o c.C_N
                        \o <<p.lateral_area, p.Loa>> >>]

\* Lines 66-75.  The forces are kept as the products the source forms:
\*   10**-3 * q * C * area (* Loa), q = 0.5 * rho_w * relative_wind_speed**2;
\* each holds every factor but rho_w, in the order of the source.
\* relative_wind_speed = sqrt(surge**2 + sway**2) enters only as its square.
Forces(p, rho_w, relative_velocity_surge, relative_velocity_sway, angle_of_attack, c) ==
    IF c.raised # "none"
    THEN [raised |-> c.raised,
          relative_velocity_surge |-> relative_velocity_surge,
          relative_velocity_sway |-> relative_velocity_sway,
          angle_of_attack |-> angle_of_attack]
    ELSE LET relative_wind_speed_sq == RAdd(RSq(relative_velocity_surge),
                                            RSq(relative_velocity_sway))
         IN  [raised |-> "none", printed |-> c.printed, rho_w |-> rho_w,
              relative_velocity_surge |-> relative_velocity_surge,
              relative_velocity_sway |-> relative_velocity_sway,
              relative_wind_speed_sq |-> relative_wind_speed_sq,
              angle_of_attack |-> angle_of_attack,
              C_X |-> c.C_X, C_Y |-> c.C_Y, C_N |-> c.C_N,
              wind_forces_and_moment |->
                  << <<Rat(1, 1000), Rat(1, 2), relative_wind_speed_sq, c.C_X,
                       p.frontal_area>>,
                     <<Rat(1, 1000), Rat(1, 2), relative_wind_speed_sq, c.C_Y,
                       p.lateral_area>>,
                     <<Rat(1, 1000), Rat(1, 2), relative_wind_speed_sq>> \o c.C_N
                        \o <<p.lateral_area, p.Loa>> >>]

\* Lines 48-64, for the relative velocity of lines 42-45.
Attack(p, relative_velocity_surge, relative_velocity_sway, angle_of_attack) ==
    Forces(p, calculate_rho_w(p.temperature), relative_velocity_surge,
           relative_velocity_sway, angle_of_attack, Coefficients(p, angle_of_attack))

Relative(p, relative_velocity_surge, relative_velocity_sway) ==
    Attack(p, relative_velocity_surge, relative_velocity_sway,
           AngleOfAttack(relative_velocity_sway, relative_velocity_surge))

\* relative_velocity_surge = vessel_speed_surge - wind_speed * np.cos(...)
RelativeSurge(p) ==
    RSub(p.vessel_speed_surge, RMul(p.wind_speed, cos(p.wind_direction - p.vessel_heading)))

\* relative_velocity_sway = vessel_speed_sway - wind_speed * np.sin(...)
RelativeSway(p) ==
    RSub(p.vessel_speed_sway, RMul(p.wind_speed, sin(p.wind_direction - p.vessel_heading)))

wind_forces_and_moment(p) == Relative(p, RelativeSurge(p), RelativeSway(p))

(***************************************************************************)
(* util/math/remainder.py and the two revisions of transform_to_pipi.      *)
(* Numbers are exact rationals; angles are rationals in hundredths of a    *)
(* degree, so that pi is the number 18000.                                 *)
(***************************************************************************)
\* int(a): the integer part, truncated toward zero.
int(a) == IF a[1] < 0 THEN -((-a[1]) \div a[2]) ELSE a[1] \div a[2]

\* fabs(a) of a rational.
RAbs(a) == <<Abs(a[1]), a[2]>>

\* np.sign(a): -1, 0 or 1.
Sign(a) == IF a[1] < 0 THEN -1 ELSE IF a[1] = 0 THEN 0 ELSE 1

\* math.floor(a), the quotient of Python's floored division.
Floor(a) == a[1] \div a[2]

\* dividend % divisor of Python: the floored remainder, with the sign of the
\* divisor.
floored_remainder(dividend, divisor) ==
    RSub(dividend, RMul(divisor, R(Floor(RDiv(dividend, divisor)))))

\* The remainder with the quotient rounded down instead of toward zero.
truncated_remainder_down(dividend, divisor) ==
    LET divided_number == RDiv(dividend, divisor)
    IN  RSub(dividend, RMul(divisor, R(Floor(divided_number))))

\* remainder.truncated_remainder, for a divisor that is not zero.
truncated_remainder(dividend, divisor) ==
    LET divided_number == RDiv(dividend, divisor)
        truncated == IF RLt(divided_number, R(0)) THEN -int(RNeg(divided_number))
                     ELSE int(divided_number)
    IN  RSub(dividend, RMul(divisor, R(truncated)))

\* revolutions = int((input_angle + np.sign(input_angle)*pi) / (2*pi))
Revolutions(input_angle) ==
    int(RDiv(RAdd(input_angle, R(Sign(input_angle) * pi)), R(2 * pi)))

\* p1 with the remainder of the angle itself, not of the angle moved by pi.
P1_unshifted(input_angle) == truncated_remainder(input_angle, R(2 * pi))

\* p1 = r.truncated_remainder(input_angle + np.sign(input_angle) * pi, 2*pi)
P1(input_angle) ==
    truncated_remainder(RAdd(input_angle, R(Sign(input_angle) * pi)), R(2 * pi))

\* p2 = (np.sign(np.sign(input_angle) + 2 * (np.sign(fabs(rem / (2*pi))) - 1))) * pi
\* for rem the remainder of input_angle + pi by 2*pi that the revision takes.
P2(input_angle, rem) ==
    LET inner == Sign(RAbs(RDiv(rem, R(2 * pi))))
    IN  R(Sign(R(Sign(input_angle) + 2 * (inner - 1))) * pi)

\* kinematics/angle_transformation.py: transform_to_pipi.
transform_to_pipi(input_angle) ==
    LET revolutions == Revolutions(input_angle)
        p1 == P1(input_angle)
        p2 == P2(input_angle, truncated_remainder(RAdd(input_angle, R(pi)), R(2 * pi)))
    IN  [raised |-> "none", output_angle |-> RSub(p1, p2), revolutions |-> revolutions]

\* kinematics.py: transform_to_pipi, the revision on the % operator.
kinematics_transform_to_pipi(input_angle) ==
    LET p1 == floored_remainder(RAdd(input_angle, R(Sign(input_angle) * pi)), R(2 * pi))
        p2 == P2(input_angle, floored_remainder(RAdd(input_angle, R(pi)), R(2 * pi)))
    IN  [raised |-> "none", output_angle |-> RSub(p1, p2)]

(***************************************************************************)
(* thrusters/power_to_force.py: imca_p2f.  Conversion factors and forces   *)
(* are exact, as integer numbers of 1e-11 (kN/kW and kN, the powers being  *)
(* whole kW), held in limbs as rho_w is.                                   *)
(***************************************************************************)
\* grav = 9.81, in hundredths.
grav == 981

\* hp_per_Kw = 1.36332, in units of 1e-5.
hp_per_Kw == 136332

\* -1, 0 or 1: the sign of a number held in limbs.
BSign(b) ==
    IF b[Len(b)] < 0 THEN -1 ELSE IF \A i \in 1..Len(b) : b[i] = 0 THEN 0 ELSE 1

\* k * 10**-3 * hp_per_Kw * grav for a whole number k, in units of 1e-10.
Conversion(k) == BScale(BScale(Big(k), hp_per_Kw), grav)

\* Every type with the negative factor the opposite of the positive one.
ConversionFactors_symmetric(thruster_type) ==
    IF thruster_type = "tunnel"
    THEN <<BScale(Conversion(11), 10), BScale(Conversion(-11), 10)>>
    ELSE IF thruster_type \in {"azimuth", "propeller"}
    THEN <<BScale(Conversion(13), 10), BScale(Conversion(-13), 10)>>
    ELSE <<BScale(Conversion(8), 10), BScale(Conversion(-8), 10)>>

\* conversion_factor_positive and conversion_factor_negative of the four
\* branches, in units of 1e-11; -0.7 * conversion_factor_positive is -7 tenths
\* of it.
ConversionFactors(thruster_type) ==
    IF thruster_type = "tunnel"
    THEN <<BScale(Conversion(11), 10), BScale(Conversion(-11), 10)>>
    ELSE IF thruster_type = "azimuth"
    THEN <<BScale(Conversion(13), 10), BScale(Conversion(-8), 10)>>
    ELSE IF thruster_type = "propeller"
    THEN <<BScale(Conversion(13), 10), BScale(Conversion(13), -7)>>
    ELSE <<BScale(Conversion(8), 10), Big(0)>>

\* imca_p2f going on after the else branch with the factors of a waterjet.
imca_p2f_goes_on(thruster_type, max_power_positive, max_power_negative) ==
    [raised |-> "none", printed |-> "",
     max_force_positive |->
         BScale(ConversionFactors(thruster_type)[1], max_power_positive),
     max_force_negative |->
         BScale(ConversionFactors(thruster_type)[2], max_power_negative)]

imca_p2f(thruster_type, max_power_positive, max_power_negative) ==
    IF thruster_type \notin {"tunnel", "azimuth", "propeller", "waterjet"}
    THEN \* print("Illegal thruster type."); exit(2)
         [raised |-> "SystemExit", printed |-> "Illegal thruster type.", status |-> 2]
    ELSE [raised |-> "none", printed |-> "",
          max_force_positive |->
              BScale(ConversionFactors(thruster_type)[1], max_power_positive),
          max_force_negative |->
              BScale(ConversionFactors(thruster_type)[2], max_power_negative)]

(***************************************************************************)
(* util/wind.py: the revision that holds wind_forces_and_moment,           *)
(* calculate_rho_w, blendermann and isherwood in one file, translated from *)
(* that file with the conventions used above.                              *)
(***************************************************************************)
wind_py_BlendermannRows ==
    << <<"Car carrier", 95, 55, 60, 80, 120>>,
       <<"Cargo vessel, loaded", 85, 65, 55, 40, 170>>,
       <<"Cargo vessel, container on deck", 85, 55, 50, 40, 140>>,
       <<"Container ship, loaded", 90, 55, 55, 40, 100, 400>>,
       <<"Destroyer", 85, 60, 65, 65, 110>>,
       <<"Diving support vessel", 90, 60, 80, 55, 170>>,
       <<"Drilling vessel", 100, 85, 92, 10, 170>>,
       <<"Ferry", 90, 45, 50, 80, 110>>,
       <<"Fishing vessel", 95, 70, 70, 40, 110>>,
       <<"Liquefied natural gas tanker", 70, 60, 65, 50, 110>>,
       <<"Offshore supply vessel", 90, 55, 80, 55, 120>>,
       <<"Passenger liner", 90, 40, 40, 80, 120>>,
       <<"Research vessel", 85, 55, 65, 60, 140>>,
       <<"Speed boat", 90, 55, 60, 60, 110>>,
       <<"Tanker, loaded", 70, 90, 55, 40, 310>>,
       <<"Tanker, in ballast", 70, 75, 55, 40, 220>>,
       <<"Tender", 85, 55, 55, 65, 110>> >>

wind_py_coefficient_table == wind_py_BlendermannRows

wind_py_FindRow(table, vessel_type) ==
    IF \E i \in 1..Len(table) : table[i][1] = vessel_type
    THEN CHOOSE i \in 1..Len(table) :
            /\ table[i][1] = vessel_type
            /\ \A k \in 1..(i - 1) : table[k][1] # vessel_type
    ELSE 0

wind_py_HeadWind(angle_of_attack) == fabs(angle_of_attack) <= pi \div 2

wind_py_Denominator(CDt, CDl, delta, angle_of_attack) ==
    RSub(R(1), RMul(RMul(RMul(Rat(1, 2), delta), RSub(R(1), RDiv(CDl, CDt))),
                    RSq(sin(2 * angle_of_attack))))

wind_py_SurgeCoefficient(CDl, frontal_area, lateral_area, angle_of_attack, denominator) ==
    RDiv(RMul(RMul(RNeg(CDl), RDiv(lateral_area, frontal_area)), cos(angle_of_attack)),
         denominator)

\* C_Y of wind.py with the sign of the sway coefficient turned.
wind_py_SwayCoefficient_positive(CDt, angle_of_attack, denominator) ==
    RDiv(RMul(CDt, sin(angle_of_attack)), denominator)

wind_py_SwayCoefficient(CDt, angle_of_attack, denominator) ==
    RDiv(RMul(RNeg(CDt), sin(angle_of_attack)), denominator)

wind_py_YawCoefficient(s_L, Loa, angle_of_attack, C_Y) ==
    <<RSub(RDiv(s_L, Loa), RMul(Rat(18, 100), Radians(angle_of_attack - pi \div 2))), C_Y>>

wind_py_blendermann(vessel_type, frontal_area, lateral_area, Loa, s_L, angle_of_attack) ==
    LET i == wind_py_FindRow(wind_py_coefficient_table, vessel_type)
    IN  IF i = 0
        THEN \* CDl_0 or CDl_pi is read without having been assigned.
             [raised |-> "UnboundLocalError"]
        ELSE
        LET row    == wind_py_coefficient_table[i]
            CDt    == Coef(row[2])
            CDl_0  == Coef(row[3])
            CDl_pi == Coef(row[4])
            delta  == Coef(row[5])
            kappa  == Coef(row[6])
            CDl    == IF wind_py_HeadWind(angle_of_attack)
                      THEN RMul(CDl_0, RDiv(frontal_area, lateral_area))
                      ELSE RMul(CDl_pi, RDiv(frontal_area, lateral_area))
            denominator == wind_py_Denominator(CDt, CDl, delta, angle_of_attack)
            C_X == wind_py_SurgeCoefficient(CDl, frontal_area, lateral_area, angle_of_attack,
                                    denominator)
            C_Y == wind_py_SwayCoefficient(CDt, angle_of_attack, denominator)
            C_N == wind_py_YawCoefficient(s_L, Loa, angle_of_attack, C_Y)
        IN  [raised |-> "none", row |-> row,
             CDt |-> CDt, CDl_0 |-> CDl_0, CDl_pi |-> CDl_pi, delta |-> delta,
             kappa |-> kappa, CDl |-> CDl, denominator |-> denominator,
             C_X |-> C_X, C_Y |-> C_Y, C_N |-> C_N]

wind_py_SurgeRows ==
    << <<0, 21520, -50000, 2430, -1640, 0, 0, 0>>,
       <<10, 17140, -33300, 1450, -1210, 0, 0, 0>>,
       <<20, 18180, -39700, 2110, -1430, 0, 0, 330>>,
       <<30, 19650, -48100, 2430, -1540, 0, 0, 410>>,
       <<40, 23330, -59900, 2470, -1900, 0, 0, 420>>,
       <<50, 17260, -65400, 1890, -1730, 3480, 0, 480>>,
       <<60, 9130, -46800, 0, -1040, 4820, 0, 520>>,
       <<70, 4570, -28800, 0, -680, 3460, 0, 430>>,
       <<80, 3410, -9100, 0, -310, 0, 0, 320>>,
       <<90, 3550, 0, 0, 0, -2470, 0, 180>>,
       <<100, 6010, 0, 0, 0, -3720, 0, -200>>,
       <<110, 6510, 12900, 0, 0, -5820, 0, -310>>,
       <<120, 5640, 25400, 0, 0, -7480, 0, -240>>,
       <<130, -1420, 35800, 0, 470, -7000, 0, -280>>,
       <<140, -6770, 36400, 0, 690, -5290, 0, -320>>,
       <<150, -7230, 31400, 0, 640, -4750, 0, -320>>,
       <<160, -21480, 25600, 0, 810, 0, 12700, -270>>,
       <<170, -27070, 39700, -1750, 1260, 0, 18100, 0>>,
       <<180, -25290, 37600, -1740, 1280, 0, 15500, 0>> >>

wind_py_SwayRows ==
    << <<0, 0, 0, 0, 0, 0, 0, 0>>,
       <<10, 960, 2200, 0, 0, 0, 0, 0>>,
       <<20, 1760, 7100, 0, 0, 0, 0, 0>>,
       <<30, 2250, 13800, 0, 230, 0, -2900, 0>>,
       <<40, 3290, 18200, 0, 430, 0, -5900, 0>>,
       <<50, 11640, 12600, 1210, 0, -2420, -9500, 0>>,
       <<60, 11630, 9600, 1010, 0, -1770, -8800, 0>>,
       <<70, 9160, 5300, 690, 0, 0, -6500, 0>>,
       <<80, 8440, 5500, 820, 0, 0, -5400, 0>>,
       <<90, 8890, 0, 1380, 0, 0, -6600, 0>>,
       <<100, 7990, 0, 1550, 0, 0, -5500, 0>>,
       <<110, 7970, 0, 1510, 0, 0, -5500, 0>>,
       <<120, 9960, 0, 1840, 0, -2120, -6600, 3400>>,
       <<130, 10140, 0, 1910, 0, -2800, -6900, 4400>>,
       <<140, 7840, 0, 1660, 0, -2090, -5300, 3800>>,
       <<150, 5360, 0, 1760, -290, -1630, 0, 2700>>,
       <<160, 2510, 0, 1060, -220, 0, 0, 0>>,
       <<170, 1250, 0, 460, -120, 0, 0, 0>>,
       <<180, 0, 0, 0, 0, 0, 0, 0>> >>

wind_py_YawRows ==
    << <<0, 0, 0, 0, 0, 0, 0>>,
       <<10, 596, 610, 0, 0, 0, -740>>,
       <<20, 1106, 2040, 0, 0, 0, -1700>>,
       <<30, 2258, 2450, 0, 0, 0, -3800>>,
       <<40, 2017, 4570, 0, 67, 0, -4720>>,
       <<50, 1759, 5730, 0, 118, 0, -5230>>,
       <<60, 1925, 4800, 0, 115, 0, -5460>>,
       <<70, 2133, 3150, 0, 81, 0, -5260>>,
       <<80, 1827, 2540, 0, 53, 0, -4430>>,
       <<90, 2627, 0, 0, 0, 0, -5080>>,
       <<100, 2102, 0, -195, 0, 335, -4920>>,
       <<110, 1567, 0, -258, 0, 497, -4570>>,
       <<120, 801, 0, -311, 0, 740, -3960>>,
       <<130, -189, 0, -488, 101, 1128, -4200>>,
       <<140, 256, 0, -422, 100, 889, -4630>>,
       <<150, 552, 0, -381, 109, 689, -4760>>,
       <<160, 881, 0, -306, 91, 366, -4150>>,
       <<170, 851, 0, -122, 25, 0, -2200>>,
       <<180, 0, 0, 0, 0, 0, 0>> >>

wind_py_surge_coefficients == wind_py_SurgeRows

wind_py_sway_coefficients == wind_py_SwayRows

wind_py_yaw_coefficients == wind_py_YawRows

wind_py_YawGuard(i) == i < 7

wind_py_LoopBody(i, angle_deg, l) ==
    LET a == interp(angle_deg, AngleColumn(wind_py_surge_coefficients), Column(wind_py_surge_coefficients, i))
        b == interp(angle_deg, AngleColumn(wind_py_sway_coefficients), Column(wind_py_sway_coefficients, i))
    IN  IF ~wind_py_YawGuard(i)
        THEN [l EXCEPT !.A = Append(@, a), !.B = Append(@, b),
                       !.surge_columns = Append(@, i), !.sway_columns = Append(@, i)]
        ELSE IF ~HasColumn(wind_py_yaw_coefficients, i)
        THEN [l EXCEPT !.raised = "IndexError",
                       !.A = Append(@, a), !.B = Append(@, b),
                       !.surge_columns = Append(@, i), !.sway_columns = Append(@, i),
                       !.yaw_columns = Append(@, i)]
        ELSE [l EXCEPT !.A = Append(@, a), !.B = Append(@, b),
                       !.C = Append(@, interp(angle_deg, AngleColumn(wind_py_yaw_coefficients),
                                              Column(wind_py_yaw_coefficients, i))),
                       !.surge_columns = Append(@, i), !.sway_columns = Append(@, i),
                       !.yaw_columns = Append(@, i)]

RECURSIVE wind_py_InterpolationLoop(_, _, _)
wind_py_InterpolationLoop(i, angle_deg, l) ==
    IF i >= 8 \/ l.raised # "none" THEN l
    ELSE wind_py_InterpolationLoop(i + 1, angle_deg, wind_py_LoopBody(i, angle_deg, l))

wind_py_EmptyLists ==
    [raised |-> "none", A |-> <<>>, B |-> <<>>, C |-> <<>>,
     surge_columns |-> <<>>, sway_columns |-> <<>>, yaw_columns |-> <<>>]

wind_py_isherwood(frontal_area, lateral_area, superstructure_area, Loa, breadth, S, s_L, masts, angle_of_attack) ==
    LET angle_deg == degrees(angle_of_attack)
        l == wind_py_InterpolationLoop(1, angle_deg, wind_py_EmptyLists)
        A == l.A
        B == l.B
        C == l.C
        bow_centroid_distance == RSub(RDiv(Loa, R(2)), s_L)
        t1 == RDiv(RMul(R(2), lateral_area), RSq(Loa))
        t2 == RDiv(RMul(R(2), frontal_area), RSq(breadth))
        t3 == RDiv(Loa, breadth)
        t4 == RDiv(S, Loa)
        t5 == RDiv(bow_centroid_distance, Loa)
        C_X == RNeg(RSum(<<A[1], RMul(A[2], t1), RMul(A[3], t2), RMul(A[4], t3),
                           RMul(A[5], t4), RMul(A[6], t5), RMul(A[7], R(masts))>>))
        C_Y == RNeg(RSum(<<B[1], RMul(B[2], t1), RMul(B[3], t2), RMul(B[4], t3),
                           RMul(B[5], t4), RMul(B[6], t5),
                           RMul(B[7], RDiv(superstructure_area, lateral_area))>>))
        C_N == RSum(<<C[1], RMul(C[2], t1), RMul(C[3], t2), RMul(C[4], t3),
                      RMul(C[5], t4), RMul(C[6], t5)>>)
    IN  IF l.raised # "none" THEN [raised |-> l.raised, yaw_columns |-> l.yaw_columns]
        ELSE [raised |-> "none",
              surge_coefficients |-> wind_py_surge_coefficients,
              sway_coefficients |-> wind_py_sway_coefficients,
              yaw_coefficients |-> wind_py_yaw_coefficients,
              angle_deg |-> angle_deg, A |-> A, B |-> B, C |-> C,
              surge_columns |-> l.surge_columns, sway_columns |-> l.sway_columns,
              yaw_columns |-> l.yaw_columns,
              C_X |-> C_X, C_Y |-> C_Y, C_N |-> <<C_N>>]

wind_py_calculate_rho_w(temperature) ==
    LET c5 == Big(3318)                              \*  3.318 * 10**-12
        c4 == BTimesPower(Big(1172), 10, 2)          \*  1.172 * 10**-10
        c3 == BTimesPower(Big(-6845), 10, 4)         \* -6.845 * 10**-8
        c2 == BTimesPower(Big(1744), 10, 7)          \*  1.744 * 10**-5
        c1 == BTimesPower(Big(-4728), 10, 9)         \* -4.728 * 10**-3
        c0 == BTimesPower(Big(1292), 10, 12)         \*  1.292
    IN  BAdd(BAdd(BAdd(BAdd(BAdd(BTimesPower(c5, temperature, 5),
                                 BTimesPower(c4, temperature, 4)),
                            BTimesPower(c3, temperature, 3)),
                       BTimesPower(c2, temperature, 2)),
                  BTimesPower(c1, temperature, 1)),
             c0)

wind_py_AngleOfAttack(relative_velocity_sway, relative_velocity_surge) ==
    arctan2(relative_velocity_sway, relative_velocity_surge) + pi

wind_py_Propagate(b) ==
    IF b.raised # "none" THEN [raised |-> b.raised]
    ELSE [raised |-> "none", printed |-> "", C_X |-> b.C_X, C_Y |-> b.C_Y, C_N |-> b.C_N]

wind_py_Coefficients(p, angle_of_attack) ==
    IF p.coeffs = "blendermann" THEN
        IF p.vessel_type = None
        THEN [raised |-> "none", printed |-> "Please enter the correct parameters for Blendermann.",
              C_X |-> R(0), C_Y |-> R(0), C_N |-> <<R(0)>>]
        ELSE wind_py_Propagate(wind_py_blendermann(p.vessel_type[1], p.frontal_area, p.lateral_area,
                                   p.Loa, p.s_L, angle_of_attack))
    ELSE IF p.coeffs = "isherwood" THEN
        IF \/ p.superstructure_area = None \/ p.breadth = None
           \/ p.S = None \/ p.masts = None
        THEN [raised |-> "none", printed |-> "Please enter the correct parameters for Isherwood.",
              C_X |-> R(0), C_Y |-> R(0), C_N |-> <<R(0)>>]
        ELSE wind_py_Propagate(wind_py_isherwood(p.frontal_area, p.lateral_area, p.superstructure_area[1],
                                 p.Loa, p.breadth[1], p.S[1], p.s_L, p.masts[1],
                                 angle_of_attack))
    ELSE \* no branch binds C_X, C_Y, C_N; line 67 reads C_X
        [raised |-> "UnboundLocalError"]

wind_py_Forces(p, rho_w, relative_velocity_surge, relative_velocity_sway, angle_of_attack, c) ==
    IF c.raised # "none"
    THEN [raised |-> c.raised,
          relative_velocity_surge |-> relative_velocity_surge,
          relative_velocity_sway |-> relative_velocity_sway,
          angle_of_attack |-> angle_of_attack]
    ELSE LET relative_wind_speed_sq == RAdd(RSq(relative_velocity_surge),
                                            RSq(relative_velocity_sway))
         IN  [raised |-> "none", printed |-> c.printed, rho_w |-> rho_w,
              relative_velocity_surge |-> relative_velocity_surge,
              relative_velocity_sway |-> relative_velocity_sway,
              relative_wind_speed_sq |-> relative_wind_speed_sq,
              angle_of_attack |-> angle_of_attack,
              C_X |-> c.C_X, C_Y |-> c.C_Y, C_N |-> c.C_N,
              wind_forces_and_moment |->
                  << <<Rat(1, 1000), Rat(1, 2), relative_wind_speed_sq, c.C_X,
                       p.frontal_area>>,
                     <<Rat(1, 1000), Rat(1, 2), relative_wind_speed_sq, c.C_Y,
                       p.lateral_area>>,
                     <<Rat(1, 1000), Rat(1, 2), relative_wind_speed_sq>> \o c.C_N
                        \o <<p.lateral_area, p.Loa>> >>]

wind_py_Attack(p, relative_velocity_surge, relative_velocity_sway, angle_of_attack) ==
    wind_py_Forces(p, wind_py_calculate_rho_w(p.temperature), relative_velocity_surge,
           relative_velocity_sway, angle_of_attack, wind_py_Coefficients(p, angle_of_attack))

wind_py_Relative(p, relative_velocity_surge, relative_velocity_sway) ==
    wind_py_Attack(p, relative_velocity_surge, relative_velocity_sway,
           wind_py_AngleOfAttack(relative_velocity_sway, relative_velocity_surge))

wind_py_RelativeSurge(p) ==
    RSub(p.vessel_speed_surge, RMul(p.wind_speed, cos(p.wind_direction - p.vessel_heading)))

wind_py_RelativeSway(p) ==
    RSub(p.vessel_speed_sway, RMul(p.wind_speed, sin(p.wind_direction - p.vessel_heading)))

wind_py_wind_forces_and_moment(p) == wind_py_Relative(p, wind_py_RelativeSurge(p), wind_py_RelativeSway(p))

(***************************************************************************)
(* trajgens/minimum_jerk_trajectory.py: mjtg, in exact rationals.          *)
(***************************************************************************)
\* a ** k for a whole k >= 0.
RECURSIVE RPow(_, _)
RPow(a, k) == IF k = 0 THEN R(1) ELSE RMul(a, RPow(a, k - 1))

\* range(a, b) with its last value b itself.
range_inclusive(a, b) == IF b >= a THEN [k \in 1..(b - a + 1) |-> a + k - 1] ELSE <<>>

\* range(a, b): a, a + 1, ..., b - 1; empty when b <= a.
range(a, b) == IF b > a THEN [k \in 1..(b - a) |-> a + k - 1] ELSE <<>>

\* The polynomial without its term of degree five.
Position_no_quintic(current, setpoint, time, timefreq) ==
    LET s == Rat(time, timefreq)
    IN  RAdd(current, RMul(RSub(setpoint, current),
                           RSub(RMul(R(10), RPow(s, 3)), RMul(R(15), RPow(s, 4)))))

\* current + (setpoint - current) * (10.0 * (time/timefreq)**3
\*     - 15.0 * (time/timefreq)**4 + 6.0 * (time/timefreq)**5)
Position(current, setpoint, time, timefreq) ==
    LET s == Rat(time, timefreq)
    IN  RAdd(current, RMul(RSub(setpoint, current),
                           RAdd(RSub(RMul(R(10), RPow(s, 3)), RMul(R(15), RPow(s, 4))),
                                RMul(R(6), RPow(s, 5)))))

\* frequency * (setpoint - current) * (30.0 * (time)**2.0 * (1.0/timefreq)**3
\*     - 60.0 * (time)**3.0 * (1.0/timefreq)**4 + 30.0 * (time)**4.0 * (1.0/timefreq)**5)
Velocity(current, setpoint, frequency, time, timefreq) ==
    LET t == R(time)
        u == Rat(1, timefreq)
    IN  RMul(RMul(frequency, RSub(setpoint, current)),
             RAdd(RSub(RMul(RMul(R(30), RPow(t, 2)), RPow(u, 3)),
                       RMul(RMul(R(60), RPow(t, 3)), RPow(u, 4))),
                  RMul(RMul(R(30), RPow(t, 4)), RPow(u, 5))))

mjtg(current, setpoint, frequency, move_time) ==
    LET timefreq == int(RMul(move_time, frequency))
        steps == range(1, timefreq)
    IN  [raised |-> "none", timefreq |-> timefreq,
         trajectory |->
             [k \in DOMAIN steps |-> Position(current, setpoint, steps[k], timefreq)],
         trajectory_derivative |->
             [k \in DOMAIN steps |-> Velocity(current, setpoint, frequency, steps[k],
                                              timefreq)]]

(***************************************************************************)
(* filters/lowpass_filters.py: lowpass_filter, in exact rationals.         *)
(***************************************************************************)
\* The loop over input_series from its element i on; output_series is the
\* list built so far.
RECURSIVE FilterLoop(_, _, _, _)
FilterLoop(input_series, time_constant, i, output_series) ==
    IF i > Len(input_series) THEN output_series
    ELSE LET previous_filtered_value == output_series[Len(output_series)]
             B == RDiv(R(1), time_constant)
             A == RSub(R(1), B)
             new_filtered_value == RAdd(RMul(A, previous_filtered_value),
                                        RMul(B, input_series[i]))
         IN  FilterLoop(input_series, time_constant, i + 1,
                        Append(output_series, new_filtered_value))

lowpass_filter(input_series, time_constant) ==
    IF input_series = <<>> THEN [raised |-> "IndexError"]
    ELSE IF time_constant = R(0) THEN [raised |-> "ZeroDivisionError"]
    ELSE [raised |-> "none",
          output_series |-> FilterLoop(input_series, time_constant, 1, <<input_series[1]>>)]

(***************************************************************************)
(* kinematics/referenceframe_transformation.py.  A vector is <<x, y, phi>>, *)
(* x and y rationals and phi an angle in hundredths of a degree, held in a *)
(* container: "matrix" is the documented np.matrix, a column of shape      *)
(* (3, 1); "array" is a list, a tuple or a one-dimensional ndarray;        *)
(* "object_matrix" is what a rotation returns when it returns.  How        *)
(* np.matrix treats a nested list that mixes 1x1 matrices with the numbers *)
(* 0 and 1 depends on the numpy installed: ragged = "ValueError" (the list *)
(* is rejected) or ragged = "object" (a matrix of dtype object is built).  *)
(***************************************************************************)
\* phi = coords_NED[2] is a number for an "array" and a 1x1 matrix for a
\* "matrix", and so are np.cos(phi) and np.sin(phi).
\*   "array": the matrix is built; rotation_matrix * coords_NED makes the
\*       three numbers a row, and (3, 3) times (1, 3) raises ValueError.
\*   "matrix": the nested list is ragged; when a matrix of objects is built,
\*       the product is a column of dtype object holding the rotated values
\*       (the first two as 1x1 matrices).
\*   "object_matrix": np.cos of an entry of dtype object: TypeError.
rotate_NED_to_BODY(coords_NED, container, ragged) ==
    LET phi == coords_NED[3]
    IN  IF container = "array" THEN [raised |-> "ValueError", line |-> 25, ragged |-> ragged]
        ELSE IF container = "object_matrix"
        THEN [raised |-> "TypeError", line |-> 21, ragged |-> ragged]
        ELSE IF ragged = "ValueError"
        THEN [raised |-> "ValueError", line |-> 21, ragged |-> ragged]
        ELSE [raised |-> "none", ragged |-> ragged, container |-> "object_matrix",
              coords_BODY |->
                  <<RAdd(RMul(cos(phi), coords_NED[1]), RMul(sin(phi), coords_NED[2])),
                    RAdd(RMul(RNeg(sin(phi)), coords_NED[1]), RMul(cos(phi), coords_NED[2])),
                    phi>>]

\* The same with the matrix [[cos, -sin, 0], [sin, cos, 0], [0, 0, 1]].
rotate_BODY_to_NED(coords_BODY, container, ragged) ==
    LET phi == coords_BODY[3]
    IN  IF container = "array" THEN [raised |-> "ValueError", line |-> 48, ragged |-> ragged]
        ELSE IF container = "object_matrix"
        THEN [raised |-> "TypeError", line |-> 44, ragged |-> ragged]
        ELSE IF ragged = "ValueError"
        THEN [raised |-> "ValueError", line |-> 44, ragged |-> ragged]
        ELSE [raised |-> "none", ragged |-> ragged, container |-> "object_matrix",
              coords_NED |->
                  <<RAdd(RMul(cos(phi), coords_BODY[1]), RMul(RNeg(sin(phi)), coords_BODY[2])),
                    RAdd(RMul(sin(phi), coords_BODY[1]), RMul(cos(phi), coords_BODY[2])),
                    phi>>]

(***************************************************************************)
(* Inputs.                                                                 *)
(***************************************************************************)
VesselTypes == {coefficient_table[i][1] : i \in 1..Len(coefficient_table)}

\* Strings that are no type name of the table: other case, a prefix, empty.
UnknownTypes == {"tanker, loaded", "Tanker", ""}

\* frontal_area, lateral_area, Loa, s_L and the Isherwood extras.
Geometries ==
    { [frontal_area |-> R(500), lateral_area |-> R(1500), Loa |-> R(100), s_L |-> R(10),
       superstructure_area |-> R(500), breadth |-> R(20), S |-> R(50)],
      [frontal_area |-> R(300), lateral_area |-> R(600), Loa |-> R(50), s_L |-> R(-5),
       superstructure_area |-> R(200), breadth |-> R(10), S |-> R(40)] }

\* The example of the documentation, for wind along the axes.
ExampleGeometry ==
    [frontal_area |-> R(530), lateral_area |-> R(1500), Loa |-> Rat(215, 2),
     s_L |-> Rat(23, 2)]

\* Angles of attack handed to blendermann: the 3-4-5 directions of [-pi, 2*pi],
\* whose doubles are tabulated too.
BlendermannAngles ==
    {x \in {q * (pi \div 2) + r : q \in (-2)..4, r \in {0, 3687, 5313}} :
        -pi <= x /\ x <= 2 * pi}

AxisAngles == {q * (pi \div 2) : q \in (-2)..4}

\* Angles of attack handed to isherwood: every 5 degrees from -20 to 200
\* degrees, and the angles wind_forces_and_moment produces.
IsherwoodAngles == {500 * k : k \in (-4)..40} \cup BlendermannAngles

WindDirections == {x \in BlendermannAngles : 0 <= x}

Headings == {0, pi \div 2}

WindSpeeds == {R(5 * k) : k \in 0..MaxWindSpeed}

VesselSpeeds == {<<R(0), R(0)>>, <<R(8), R(0)>>, <<R(4), R(3)>>}

Temperatures == {20, 0}

\* Air temperatures in degrees C for calculate_rho_w on its own.
AirTemperatures == {10 * k : k \in (-1)..3}

\* The keyword parameters of wind_forces_and_moment for each model: all
\* present, or one of them left at its default None.
OptionalParameters(g) ==
    LET none == [vessel_type |-> None, superstructure_area |-> None, breadth |-> None,
                 S |-> None, masts |-> None]
        all  == {[none EXCEPT !.superstructure_area = Some(g.superstructure_area),
                              !.breadth = Some(g.breadth), !.S = Some(g.S),
                              !.masts = Some(m)] : m \in 0..MaxMasts}
        one  == {a \in all : a.masts = Some(MaxMasts)}
    IN  [coeffs : {"blendermann"},
         o : {none} \cup {[none EXCEPT !.vessel_type = Some(v)] :
                            v \in {"Ferry", "Offshore supply vessel", "Tanker"}}]
        \cup
        [coeffs : {"isherwood"},
         o : all \cup {[a EXCEPT !.superstructure_area = None] : a \in one}
                 \cup {[a EXCEPT !.breadth = None] : a \in one}
                 \cup {[a EXCEPT !.S = None] : a \in one}
                 \cup {[a EXCEPT !.masts = None] : a \in one}]
        \cup
        [coeffs : {"hughes"}, o : {none}]

\* Input angles: every twelfth of pi up to MaxTurns half turns either way,
\* and 4.0 and -4.0 radians to the nearest hundredth of a degree.
AngleInputs ==
    {R(k * (pi \div 12)) : k \in (-12 * MaxTurns)..(12 * MaxTurns)} \cup {R(22918), R(-22918)}

\* Dividends and divisors: halves up to MaxDividend / 2 either way.
Dividends == {Rat(n, 2) : n \in (-MaxDividend)..MaxDividend}

Divisors == {Rat(n, 2) : n \in (-5)..5}

\* enumerations.ThrusterType
ThrusterTypes == {"tunnel", "azimuth", "propeller", "waterjet", "vsp"}

\* Maximum powers in kW: those of the unit tests, small ones, none, and a
\* negative one.
Powers == {0, 880, 2200, 5000, -880} \cup 1..MaxPower

\* Values for current and setpoint (15 and 27 are those of the example).
Levels == {R(15), R(27), R(0), Rat(-5, 2)}

\* Frequencies in Hz and move times in s; int(move_time * frequency) goes up
\* to MaxSteps.
Frequencies == {R(1), R(2), Rat(1, 2), R(-1)}

MoveTimes == {R(-1), R(-3), R(0), Rat(1, 2)} \cup {R(n) : n \in 1..MaxSteps}

\* Time series of up to MaxSeries samples, and time constants.
Samples == {R(0), R(1), R(4)}

RECURSIVE Series(_)
Series(n) == IF n = 0 THEN {<<>>} ELSE {Append(q, v) : q \in Series(n - 1), v \in Samples}

TimeSeries == UNION {Series(n) : n \in 0..MaxSeries}

TimeConstants == {R(1), R(2), R(4), R(0)}

\* Positions and headings of the vectors to rotate.
Coordinates == {R(0), R(1), R(-2), Rat(1, 2)}

Yaws == {q * (pi \div 2) + r : q \in (-2)..MaxQuarterTurns, r \in {0, 3687}}

\* The containers a caller hands over, and what the numpy installed does with
\* a ragged nested list.
Containers == {"matrix", "array"}

RaggedOutcomes == {"ValueError", "object"}

(***************************************************************************)
(* The state machine: an idle library and one action per public function,  *)
(* each recording the call (op, args) and what it returned or raised (ret),*)
(* and the end of the call.                                                *)
(***************************************************************************)
Init ==
    /\ op = "none"
    /\ args = <<>>
    /\ ret = [raised |-> "none"]

CallBlendermann ==
    /\ op = "none"
    /\ \E vessel_type \in VesselTypes \cup UnknownTypes,
       ga \in (Geometries \X BlendermannAngles) \cup ({ExampleGeometry} \X AxisAngles) :
        LET g == ga[1] IN
        /\ op' = "blendermann"
        /\ args' = [vessel_type |-> vessel_type, frontal_area |-> g.frontal_area,
                    lateral_area |-> g.lateral_area, Loa |-> g.Loa, s_L |-> g.s_L,
                    angle_of_attack |-> ga[2]]
        /\ ret' = blendermann(vessel_type, g.frontal_area, g.lateral_area, g.Loa, g.s_L,
                              ga[2])

CallIsherwood ==
    /\ op = "none"
    /\ \E g \in Geometries, masts \in 0..MaxMasts, angle_of_attack \in IsherwoodAngles :
        /\ op' = "isherwood"
        /\ args' = [frontal_area |-> g.frontal_area, lateral_area |-> g.lateral_area,
                    superstructure_area |-> g.superstructure_area, Loa |-> g.Loa,
                    breadth |-> g.breadth, S |-> g.S, s_L |-> g.s_L, masts |-> masts,
                    angle_of_attack |-> angle_of_attack]
        /\ ret' = isherwood(g.frontal_area, g.lateral_area, g.superstructure_area, g.Loa,
                            g.breadth, g.S, g.s_L, masts, angle_of_attack)

\* The relative wind of the call has a tabulated direction, one whose double
\* is tabulated too (blendermann takes the sine of twice the angle).
Tabulated(relative_velocity_surge, relative_velocity_sway) ==
    /\ OnGrid(relative_velocity_sway, relative_velocity_surge)
    /\ AngleOfAttack(relative_velocity_sway, relative_velocity_surge) \in BlendermannAngles

Parameters(g, wind_speed, wind_direction, vessel_heading, v, temperature, k) ==
    [wind_speed |-> wind_speed, wind_direction |-> wind_direction,
     frontal_area |-> g.frontal_area, lateral_area |-> g.lateral_area,
     Loa |-> g.Loa, s_L |-> g.s_L, coeffs |-> k.coeffs,
     vessel_type |-> k.o.vessel_type,
     superstructure_area |-> k.o.superstructure_area,
     breadth |-> k.o.breadth, S |-> k.o.S, masts |-> k.o.masts,
     temperature |-> temperature, vessel_heading |-> vessel_heading,
     vessel_speed_surge |-> v[1], vessel_speed_sway |-> v[2]]

WindInputs ==
    {p \in UNION {{Parameters(g, w, d, h, v, t, k) :
                     w \in WindSpeeds, d \in WindDirections, h \in Headings,
                     v \in VesselSpeeds, t \in Temperatures,
                     k \in OptionalParameters(g)} : g \in Geometries} :
        Tabulated(RelativeSurge(p), RelativeSway(p))}

CallWindForces ==
    /\ op = "none"
    /\ \E p \in WindInputs :
        /\ op' = "wind_forces_and_moment"
        /\ args' = p
        /\ ret' = wind_forces_and_moment(p)

\* The call is over; the library keeps nothing of it.
Return ==
    /\ op # "none"
    /\ op' = "none"
    /\ args' = <<>>
    /\ ret' = [raised |-> "none"]

\* calculate_rho_w called on its own.
CallCalculateRhoW ==
    /\ op = "none"
    /\ \E temperature \in AirTemperatures :
        /\ op' = "calculate_rho_w"
        /\ args' = [temperature |-> temperature]
        /\ ret' = [raised |-> "none", rho_w |-> calculate_rho_w(temperature)]

CallTruncatedRemainder ==
    /\ op = "none"
    /\ \E dividend \in Dividends, divisor \in Divisors :
        /\ op' = "truncated_remainder"
        /\ args' = [dividend |-> dividend, divisor |-> divisor]
        /\ ret' = IF divisor = R(0) THEN [raised |-> "ZeroDivisionError"]
                  ELSE [raised |-> "none",
                        remainder |-> truncated_remainder(dividend, divisor)]

\* angle_transformation.transform_to_pipi
CallTransformToPipi ==
    /\ op = "none"
    /\ \E input_angle \in AngleInputs :
        /\ op' = "transform_to_pipi"
        /\ args' = [input_angle |-> input_angle]
        /\ ret' = transform_to_pipi(input_angle)

\* kinematics.transform_to_pipi
CallKinematicsTransformToPipi ==
    /\ op = "none"
    /\ \E input_angle \in AngleInputs :
        /\ op' = "kinematics.transform_to_pipi"
        /\ args' = [input_angle |-> input_angle]
        /\ ret' = kinematics_transform_to_pipi(input_angle)

CallImcaP2f ==
    /\ op = "none"
    /\ \E thruster_type \in ThrusterTypes, max_power_positive \in Powers,
          max_power_negative \in Powers :
        /\ op' = "imca_p2f"
        /\ args' = [thruster_type |-> thruster_type,
                    max_power_positive |-> max_power_positive,
                    max_power_negative |-> max_power_negative]
        /\ ret' = imca_p2f(thruster_type, max_power_positive, max_power_negative)

Next ==
    \/ CallBlendermann
    \/ CallIsherwood
    \/ CallWindForces
    \/ CallCalculateRhoW
    \/ CallTruncatedRemainder
    \/ CallTransformToPipi
    \/ CallKinematicsTransformToPipi
    \/ CallImcaP2f
    \/ Return

Spec == Init /\ [][Next]_vars

(***************************************************************************)
(* The two revisions side by side: each action calls the function of       *)
(* util/wind.py and the function of the same name of util/wind/ with the   *)
(* same arguments and records both results.                                *)
(***************************************************************************)
CompareBlendermann ==
    /\ op = "none"
    /\ \E vessel_type \in VesselTypes \cup UnknownTypes,
          ga \in (Geometries \X BlendermannAngles) \cup ({ExampleGeometry} \X AxisAngles) :
        LET g == ga[1] IN
        /\ op' = "revisions.blendermann"
        /\ args' = [vessel_type |-> vessel_type, frontal_area |-> g.frontal_area,
                    lateral_area |-> g.lateral_area, Loa |-> g.Loa, s_L |-> g.s_L,
                    angle_of_attack |-> ga[2]]
        /\ ret' = [wind_py |-> wind_py_blendermann(vessel_type, g.frontal_area,
                                                  g.lateral_area, g.Loa, g.s_L, ga[2]),
                   wind |-> blendermann(vessel_type, g.frontal_area, g.lateral_area,
                                        g.Loa, g.s_L, ga[2])]

CompareIsherwood ==
    /\ op = "none"
    /\ \E g \in Geometries, masts \in 0..MaxMasts, angle_of_attack \in IsherwoodAngles :
        /\ op' = "revisions.isherwood"
        /\ args' = [frontal_area |-> g.frontal_area, lateral_area |-> g.lateral_area,
                    superstructure_area |-> g.superstructure_area, Loa |-> g.Loa,
                    breadth |-> g.breadth, S |-> g.S, s_L |-> g.s_L, masts |-> masts,
                    angle_of_attack |-> angle_of_attack]
        /\ ret' = [wind_py |-> wind_py_isherwood(g.frontal_area, g.lateral_area,
                                                g.superstructure_area, g.Loa, g.breadth,
                                                g.S, g.s_L, masts, angle_of_attack),
                   wind |-> isherwood(g.frontal_area, g.lateral_area,
                                      g.superstructure_area, g.Loa, g.breadth, g.S,
                                      g.s_L, masts, angle_of_attack)]

CompareCalculateRhoW ==
    /\ op = "none"
    /\ \E temperature \in AirTemperatures :
        /\ op' = "revisions.calculate_rho_w"
        /\ args' = [temperature |-> temperature]
        /\ ret' = [wind_py |-> wind_py_calculate_rho_w(temperature),
                   wind |-> calculate_rho_w(temperature)]

\* The calls of wind_forces_and_moment at the default temperature and heading.
RevisionInputs == {p \in WindInputs : p.temperature = 20 /\ p.vessel_heading = 0}

CompareWindForces ==
    /\ op = "none"
    /\ \E p \in RevisionInputs :
        /\ op' = "revisions.wind_forces_and_moment"
        /\ args' = p
        /\ ret' = [wind_py |-> wind_py_wind_forces_and_moment(p),
                   wind |-> wind_forces_and_moment(p)]

NextRevisions ==
    \/ CompareBlendermann
    \/ CompareIsherwood
    \/ CompareCalculateRhoW
    \/ CompareWindForces
    \/ Return

SpecRevisions == Init /\ [][NextRevisions]_vars

(***************************************************************************)
(* The trajectory generator, the filter and the rotations, one call at a   *)
(* time.                                                                   *)
(***************************************************************************)
CallMjtg ==
    /\ op = "none"
    /\ \E current \in Levels, setpoint \in Levels, frequency \in Frequencies,
          move_time \in MoveTimes :
        /\ int(RMul(move_time, frequency)) <= MaxSteps
        /\ op' = "mjtg"
        /\ args' = [current |-> current, setpoint |-> setpoint, frequency |-> frequency,
                    move_time |-> move_time]
        /\ ret' = mjtg(current, setpoint, frequency, move_time)

CallLowpassFilter ==
    /\ op = "none"
    /\ \E input_series \in TimeSeries, time_constant \in TimeConstants :
        /\ op' = "lowpass_filter"
        /\ args' = [input_series |-> input_series, time_constant |-> time_constant]
        /\ ret' = lowpass_filter(input_series, time_constant)

CallRotateNEDToBODY ==
    /\ op = "none"
    /\ \E x \in Coordinates, y \in Coordinates, phi \in Yaws, container \in Containers,
          ragged \in RaggedOutcomes :
        /\ op' = "rotate_NED_to_BODY"
        /\ args' = [coords_NED |-> <<x, y, phi>>, container |-> container]
        /\ ret' = rotate_NED_to_BODY(<<x, y, phi>>, container, ragged)

CallRotateBODYToNED ==
    /\ op = "none"
    /\ \E x \in Coordinates, y \in Coordinates, phi \in Yaws, container \in Containers,
          ragged \in RaggedOutcomes :
        /\ op' = "rotate_BODY_to_NED"
        /\ args' = [coords_BODY |-> <<x, y, phi>>, container |-> container]
        /\ ret' = rotate_BODY_to_NED(<<x, y, phi>>, container, ragged)

NextMotion ==
    \/ CallMjtg
    \/ CallLowpassFilter
    \/ CallRotateNEDToBODY
    \/ CallRotateBODYToNED
    \/ Return

SpecMotion == Init /\ [][NextMotion]_vars

(***************************************************************************)
(* Properties.                                                             *)
(***************************************************************************)
\* A parameter the selected model requires is left at None.
MissingParameter(p) ==
    \/ p.coeffs = "blendermann" /\ p.vessel_type = None
    \/ /\ p.coeffs = "isherwood"
       /\ \/ p.superstructure_area = None \/ p.breadth = None
          \/ p.S = None \/ p.masts = None

\* C1: whenever a parameter required by the selected model is None,
\* wind_forces_and_moment ends in an error and returns no force vector; it
\* never substitutes the coefficients (0, 0, 0) and returns a zero vector.
C1_MissingParameterRaises ==
    (op = "wind_forces_and_moment" /\ MissingParameter(args)) => ret.raised # "none"

\* C2: blendermann, called directly or through wind_forces_and_moment, ends in
\* an error and returns no coefficients whenever vessel_type is not equal to
\* one of the type names of the table; the caller does not mask the error.
C2_UnknownVesselTypeRaises ==
    /\ (op = "blendermann" /\ args.vessel_type \notin VesselTypes)
          => (ret.raised # "none" /\ "C_X" \notin DOMAIN ret)
    /\ (/\ op = "wind_forces_and_moment" /\ args.coeffs = "blendermann"
        /\ args.vessel_type # None /\ args.vessel_type[1] \notin VesselTypes)
          => (ret.raised # "none" /\ "wind_forces_and_moment" \notin DOMAIN ret)

C2_Witness ==
    /\ op = "wind_forces_and_moment" /\ args.coeffs = "blendermann"
    /\ args.vessel_type = Some("Tanker")
    /\ ret.raised = "UnboundLocalError"

\* The row of a table at a key, as the coefficients it holds.
RowAt(table, deg) ==
    LET r == CHOOSE r \in {table[k] : k \in 1..Len(table)} : r[1] = deg
    IN  [i \in 1..(Len(r) - 1) |-> Rat(r[i + 1], 10000)]

Knots == {10 * k : k \in 0..18}

\* C3: at each of the angles 0, 10, ..., 180 degrees the interpolated
\* coefficients of the three tables are exactly the rows of that angle.
C3_ExactAtKnots ==
    (op = "isherwood" /\ \E k \in Knots : ret.angle_deg = R(k)) =>
        /\ ret.A = RowAt(ret.surge_coefficients, ret.angle_deg[1])
        /\ ret.B = RowAt(ret.sway_coefficients, ret.angle_deg[1])
        /\ ret.C = RowAt(ret.yaw_coefficients, ret.angle_deg[1])

C3_Witness ==
    /\ op = "isherwood" /\ ret.angle_deg = R(90)
    /\ ret.A[1] = Rat(355, 1000) /\ ret.A[5] = Rat(-247, 1000)
    /\ ret.C[6] = Rat(-508, 1000)

\* C4: below 0 degrees the interpolated coefficients are the row of 0
\* degrees, above 180 degrees the row of 180 degrees (clamped, never
\* extrapolated).
C4_ClampAtEdges ==
    op = "isherwood" =>
        /\ RLt(ret.angle_deg, R(0)) =>
              /\ ret.A = RowAt(ret.surge_coefficients, 0)
              /\ ret.B = RowAt(ret.sway_coefficients, 0)
              /\ ret.C = RowAt(ret.yaw_coefficients, 0)
        /\ RLt(R(180), ret.angle_deg) =>
              /\ ret.A = RowAt(ret.surge_coefficients, 180)
              /\ ret.B = RowAt(ret.sway_coefficients, 180)
              /\ ret.C = RowAt(ret.yaw_coefficients, 180)

C4_Witness ==
    /\ op = "isherwood" /\ ret.angle_deg = R(190)
    /\ ret.A[1] = Rat(-2529, 1000) /\ ret.A[6] = Rat(155, 100)

StrictlyBetween(v, a, b) == (RLt(a, v) /\ RLt(v, b)) \/ (RLt(b, v) /\ RLt(v, a))

\* C5 as claimed: at 45 degrees every interpolated coefficient lies strictly
\* between the column's values at 40 and at 50 degrees.
C5_StrictlyBetween ==
    (op = "isherwood" /\ ret.angle_deg = R(45)) =>
        /\ \A i \in 1..7 : StrictlyBetween(ret.A[i], RowAt(ret.surge_coefficients, 40)[i],
                                           RowAt(ret.surge_coefficients, 50)[i])
        /\ \A i \in 1..7 : StrictlyBetween(ret.B[i], RowAt(ret.sway_coefficients, 40)[i],
                                           RowAt(ret.sway_coefficients, 50)[i])
        /\ \A i \in 1..6 : StrictlyBetween(ret.C[i], RowAt(ret.yaw_coefficients, 40)[i],
                                           RowAt(ret.yaw_coefficients, 50)[i])

\* The value v lies strictly between a and b when they differ and equals
\* both when they are equal.
BetweenOrEqual(v, a, b) == IF a = b THEN v = a ELSE StrictlyBetween(v, a, b)

\* C5 amended: at 45 degrees every interpolated coefficient lies strictly
\* between the column's values at 40 and at 50 degrees when these differ, and
\* equals them when they are equal (columns A4 at 0.348 apart, A5 constant 0).
C5_BetweenOrEqual ==
    (op = "isherwood" /\ ret.angle_deg = R(45)) =>
        /\ \A i \in 1..7 : BetweenOrEqual(ret.A[i], RowAt(ret.surge_coefficients, 40)[i],
                                          RowAt(ret.surge_coefficients, 50)[i])
        /\ \A i \in 1..7 : BetweenOrEqual(ret.B[i], RowAt(ret.sway_coefficients, 40)[i],
                                          RowAt(ret.sway_coefficients, 50)[i])
        /\ \A i \in 1..6 : BetweenOrEqual(ret.C[i], RowAt(ret.yaw_coefficients, 40)[i],
                                          RowAt(ret.yaw_coefficients, 50)[i])

C5_Witness ==
    /\ op = "isherwood" /\ ret.angle_deg = R(45)
    /\ ret.A[1] = Rat(20295, 10000)   \* between 2.333 and 1.726
    /\ ret.A[6] = R(0)                \* 0.000 at 40 and at 50 degrees

\* C6: the row blendermann finds for a type of the table is one of 17 rows
\* with distinct names, holds exactly five numbers after the name, and CDt,
\* CDl0, CDlpi, delta and kappa are bound to them in order, kappa to the last.
C6_RowsOfFive ==
    (op = "blendermann" /\ args.vessel_type \in VesselTypes) =>
        /\ Len(coefficient_table) = 17
        /\ Cardinality(VesselTypes) = 17
        /\ ret.raised = "none"
        /\ ret.row[1] = args.vessel_type
        /\ Len(ret.row) = 1 + 5
        /\ ret.CDt = Coef(ret.row[2])
        /\ ret.CDl_0 = Coef(ret.row[3])
        /\ ret.CDl_pi = Coef(ret.row[4])
        /\ ret.delta = Coef(ret.row[5])
        /\ ret.kappa = Coef(ret.row[Len(ret.row)])

\* C7: blendermann uses CDl = CDl0 * (frontal_area / lateral_area) when
\* |angle_of_attack| <= pi/2, the boundary included, and
\* CDl = CDlpi * (frontal_area / lateral_area) for every other angle.
C7_HemisphereSelectsCDl ==
    (op = "blendermann" /\ ret.raised = "none") =>
        LET ratio == RDiv(args.frontal_area, args.lateral_area)
            a     == args.angle_of_attack
        IN  /\ (-(pi \div 2) <= a /\ a <= pi \div 2)
                  => ret.CDl = RMul(Coef(ret.row[3]), ratio)
            /\ (a < -(pi \div 2) \/ a > pi \div 2)
                  => ret.CDl = RMul(Coef(ret.row[4]), ratio)

C7_Witness ==
    /\ op = "blendermann" /\ ret.raised = "none"
    /\ args.angle_of_attack = pi \div 2
    /\ args.vessel_type = "Offshore supply vessel"
    /\ ret.CDl = RMul(Rat(55, 100), RDiv(args.frontal_area, args.lateral_area))
    /\ ret.CDl # RMul(Rat(80, 100), RDiv(args.frontal_area, args.lateral_area))

\* C8: at angle_of_attack = pi, for every type of the table and every
\* geometry, C_Y = 0, C_N = 0 and C_X = CDlpi.
C8_SternWind ==
    (op = "blendermann" /\ ret.raised = "none" /\ args.angle_of_attack = pi) =>
        /\ ret.C_Y = R(0)
        /\ ProductIsZero(ret.C_N)
        /\ ret.C_X = Coef(ret.row[4])

C8_Witness ==
    /\ op = "blendermann" /\ args.angle_of_attack = pi
    /\ args.vessel_type = "Offshore supply vessel"
    /\ args.frontal_area = R(530) /\ args.lateral_area = R(1500)
    /\ args.Loa = Rat(215, 2) /\ args.s_L = Rat(23, 2)
    /\ ret.C_X = Rat(80, 100) /\ ret.C_Y = R(0)

\* C9: the relative velocity is the vessel speed minus the wind component in
\* surge and in sway, the angle handed to the coefficient model is the
\* direction of the relative velocity plus pi, and with the vessel at rest
\* and wind_speed > 0 it is congruent to wind_direction - vessel_heading
\* modulo 2*pi.
C9_AngleOfAttack ==
    op = "wind_forces_and_moment" =>
        LET theta == args.wind_direction - args.vessel_heading
            rs == ret.relative_velocity_surge
            rw == ret.relative_velocity_sway
            a  == ret.angle_of_attack
        IN  /\ rs = RSub(args.vessel_speed_surge, RMul(args.wind_speed, cos(theta)))
            /\ rw = RSub(args.vessel_speed_sway, RMul(args.wind_speed, sin(theta)))
            /\ 0 < a /\ a <= 2 * pi
            /\ (rs # R(0) \/ rw # R(0)) =>
                  \* (rs, rw) is a positive multiple of (cos, sin)(a - pi)
                  /\ RMul(rs, sin(a - pi)) = RMul(rw, cos(a - pi))
                  /\ RLt(R(0), RAdd(RMul(rs, cos(a - pi)), RMul(rw, sin(a - pi))))
            /\ (/\ args.vessel_speed_surge = R(0) /\ args.vessel_speed_sway = R(0)
                /\ RLt(R(0), args.wind_speed))
                  => (a - theta) % (2 * pi) = 0

C9_Witness ==
    /\ op = "wind_forces_and_moment"
    /\ args.vessel_speed_surge = R(0) /\ args.vessel_speed_sway = R(0)
    /\ args.wind_speed = R(5)
    /\ args.wind_direction = 3687 /\ args.vessel_heading = pi \div 2
    /\ ret.angle_of_attack = 3687 - pi \div 2 + 2 * pi

Keys(table) == [k \in 1..Len(table) |-> table[k][1]]

\* C10: each of the three Isherwood tables has exactly 19 rows whose angle
\* keys are strictly increasing, are exactly 0, 10, ..., 180, and are the
\* same keys in the same order in all three tables.
C10_TableKeys ==
    op = "isherwood" =>
        /\ \A t \in {ret.surge_coefficients, ret.sway_coefficients, ret.yaw_coefficients} :
              /\ Len(t) = 19
              /\ \A k \in 1..(Len(t) - 1) : t[k][1] < t[k + 1][1]
              /\ Keys(t) = [k \in 1..19 |-> 10 * (k - 1)]
        /\ Keys(ret.surge_coefficients) = Keys(ret.sway_coefficients)
        /\ Keys(ret.sway_coefficients) = Keys(ret.yaw_coefficients)

C10_Witness ==
    /\ op = "isherwood"
    /\ Len(ret.surge_coefficients) = 19 /\ Len(ret.yaw_coefficients) = 19
    /\ ret.surge_coefficients[1][1] = 0 /\ ret.sway_coefficients[10][1] = 90
    /\ ret.yaw_coefficients[19][1] = 180

\* The value isherwood interpolates from column i of a table at the angle.
FromColumn(table, i, angle_deg) == interp(angle_deg, AngleColumn(table), Column(table, i))

\* C11: every call of isherwood ends its interpolation loop with exactly 7
\* surge coefficients, 7 sway coefficients and 6 yaw coefficients, the
\* coefficient of index i interpolated from column i + 1 of its table (column 0
\* holds the angles), and every column read from the yaw table exists.
C11_LoopColumns ==
    op = "isherwood" =>
        /\ ret.raised = "none"
        /\ Len(ret.A) = 7 /\ Len(ret.B) = 7 /\ Len(ret.C) = 6
        /\ ret.surge_columns = <<1, 2, 3, 4, 5, 6, 7>>
        /\ ret.sway_columns = <<1, 2, 3, 4, 5, 6, 7>>
        /\ ret.yaw_columns = <<1, 2, 3, 4, 5, 6>>
        /\ \A i \in 1..7 : ret.A[i] = FromColumn(surge_coefficients, i, ret.angle_deg)
        /\ \A i \in 1..7 : ret.B[i] = FromColumn(sway_coefficients, i, ret.angle_deg)
        /\ \A i \in 1..6 : ret.C[i] = FromColumn(yaw_coefficients, i, ret.angle_deg)
        /\ \A k \in 1..Len(ret.yaw_columns) : HasColumn(yaw_coefficients, ret.yaw_columns[k])

\* isherwood at 45 degrees: the lists are complete, the last surge and sway
\* coefficients come from the last column and the yaw list stops one short.
C11_Witness ==
    /\ op = "isherwood"
    /\ args.angle_of_attack = pi \div 4
    /\ ret.raised = "none"
    /\ Len(ret.A) = 7 /\ Len(ret.C) = 6
    /\ ret.A[7] = Rat(9, 200)
    /\ ret.C[6] = Rat(-199, 400)
    /\ ~HasColumn(yaw_coefficients, 7)

\* C13: in every call of blendermann that finds its row (every row of the
\* table, every tabulated angle, frontal and lateral area positive) the
\* denominator is strictly positive, hence not zero; it is at least
\* 1 - 0.5*delta, the value it cannot go below at any angle, and delta < 2.
C13_DenominatorPositive ==
    (op = "blendermann" /\ ret.raised = "none") =>
        /\ RLt(R(0), args.frontal_area) /\ RLt(R(0), args.lateral_area)
        /\ RLt(R(0), ret.denominator)
        /\ RLt(ret.delta, R(2))
        /\ RLe(RSub(R(1), RMul(Rat(1, 2), ret.delta)), ret.denominator)

\* An oblique wind on a vessel whose longitudinal resistance is below the
\* transverse one: the correction term is not zero, the denominator below 1.
C13_Witness ==
    /\ op = "blendermann" /\ ret.raised = "none"
    /\ sin(2 * args.angle_of_attack) # R(0)
    /\ RLt(ret.CDl, ret.CDt)
    /\ RLt(ret.denominator, R(1))
    /\ RLt(R(0), ret.denominator)

\* A density held in limbs (positive, below 10^5 kg/m^3) agrees with
\* n * 1e-4 kg/m^3 to four decimal places: it lies strictly within half of
\* 1e-4 of it.  A density exactly halfway between two multiples of 1e-4
\* agrees with neither.
AgreesToFourDecimals(b, n) ==
    LET whole == b[5] * 100000 + b[4] * 10 + b[3] \div 1000
        rest  == <<b[3] % 1000, b[2], b[1]>>
    IN  /\ b[6] = 0
        /\ \/ rest[1] < 500 /\ n = whole
           \/ (rest[1] > 500 \/ (rest[1] = 500 /\ (rest[2] > 0 \/ rest[3] > 0))) /\ n = whole + 1

\* C14 as stated: calculate_rho_w(20.0) agrees with 1.2041 kg/m^3 to four
\* decimal places.
C14_RhoAt20Is12041 ==
    (op = "calculate_rho_w" /\ args.temperature = 20) => AgreesToFourDecimals(ret.rho_w, 12041)

\* C14: calculate_rho_w(20.0), the quintic evaluated at T = 20, is exactly
\* 1.2038977696 kg/m^3, which agrees with 1.2039 to four decimal places.
C14_RhoAt20Is12039 ==
    (op = "calculate_rho_w" /\ args.temperature = 20) =>
        /\ ret.rho_w = <<0, 6960, 8977, 1203, 0, 0>>
        /\ AgreesToFourDecimals(ret.rho_w, 12039)

\* calculate_rho_w has been called with 20 and has returned a density
\* between 1.2 and 1.21 kg/m^3.
C14_Witness ==
    /\ op = "calculate_rho_w" /\ args.temperature = 20
    /\ ret.raised = "none"
    /\ ret.rho_w[4] \in 1200..1209 /\ ret.rho_w[5] = 0 /\ ret.rho_w[6] = 0

\* The coefficients of the model the call selects, at an angle of attack.
SelectedModel(p, angle_of_attack) ==
    IF p.coeffs = "blendermann"
    THEN blendermann(p.vessel_type[1], p.frontal_area, p.lateral_area, p.Loa, p.s_L,
                     angle_of_attack)
    ELSE isherwood(p.frontal_area, p.lateral_area, p.superstructure_area[1], p.Loa,
                   p.breadth[1], p.S[1], p.s_L, p.masts[1], angle_of_attack)

\* The same three coefficients in two results.
SameCoefficients(c, d) == c.C_X = d.C_X /\ c.C_Y = d.C_Y /\ c.C_N = d.C_N

\* C15: every call of wind_forces_and_moment that returns gives a vector of
\* three components, in the order surge force, sway force, yaw moment:
\*   10**-3 * q * C_X * frontal_area, 10**-3 * q * C_Y * lateral_area and
\*   10**-3 * q * C_N * lateral_area * Loa, with q = 0.5 * rho_w * speed**2,
\* rho_w the density at the temperature of the call, speed**2 the square of the
\* relative wind speed, and, when the parameters of the selected model are
\* given, C_X, C_Y, C_N the coefficients of that model at the angle of attack
\* computed from the relative velocity.
C15_ForceVector ==
    (op = "wind_forces_and_moment" /\ ret.raised = "none") =>
        LET q == <<Rat(1, 2), ret.relative_wind_speed_sq>>
            v == ret.wind_forces_and_moment
        IN  /\ Len(v) = 3
            /\ ret.rho_w = calculate_rho_w(args.temperature)
            /\ ret.relative_wind_speed_sq = RAdd(RSq(RelativeSurge(args)), RSq(RelativeSway(args)))
            /\ ret.angle_of_attack = AngleOfAttack(RelativeSway(args), RelativeSurge(args))
            /\ v[1] = <<Rat(1, 1000)>> \o q \o <<ret.C_X, args.frontal_area>>
            /\ v[2] = <<Rat(1, 1000)>> \o q \o <<ret.C_Y, args.lateral_area>>
            /\ v[3] = <<Rat(1, 1000)>> \o q \o ret.C_N \o <<args.lateral_area, args.Loa>>
            /\ ~MissingParameter(args) =>
                  SameCoefficients(ret, SelectedModel(args, ret.angle_of_attack))

\* A call with a quartering relative wind and all parameters given: no
\* factor of the surge and sway forces is zero and the areas differ.
C15_Witness ==
    /\ op = "wind_forces_and_moment" /\ ret.raised = "none"
    /\ ~MissingParameter(args)
    /\ args.frontal_area # args.lateral_area
    /\ Len(ret.wind_forces_and_moment) = 3
    /\ ~ProductIsZero(ret.wind_forces_and_moment[1])
    /\ ~ProductIsZero(ret.wind_forces_and_moment[2])
    /\ ret.wind_forces_and_moment[1][5] = args.frontal_area
    /\ ret.wind_forces_and_moment[2][5] = args.lateral_area

\* C16: the output angle of angle_transformation.transform_to_pipi lies in
\* the closed interval [-pi, pi] for every input angle: positive, negative,
\* zero, and the exact multiples of pi.
C16_OutputInPiPi ==
    op = "transform_to_pipi" =>
        /\ RLe(R(-pi), ret.output_angle)
        /\ RLe(ret.output_angle, R(pi))

\* 4.0 radians (229.18 degrees) has been wrapped to -2.28 radians (-130.82
\* degrees).
C16_Witness ==
    /\ op = "transform_to_pipi"
    /\ args.input_angle = R(22918)
    /\ ret.output_angle = R(22918 - 2 * pi)
    /\ RLt(R(pi), args.input_angle)

\* C17: for every input angle the pair (output_angle, revolutions) of
\* angle_transformation.transform_to_pipi satisfies
\* input_angle = output_angle + 2*pi*revolutions, with revolutions positive
\* for a wrapped positive input and negative for a wrapped negative one
\* (4.0 gives 1 and -4.0 gives -1).
C17_RevolutionsRebuildInput ==
    op = "transform_to_pipi" =>
        /\ args.input_angle = RAdd(ret.output_angle, R(2 * pi * ret.revolutions))
        /\ RLt(R(pi), args.input_angle) => ret.revolutions > 0
        /\ RLt(args.input_angle, R(-pi)) => ret.revolutions < 0
        /\ args.input_angle = R(22918) => ret.revolutions = 1
        /\ args.input_angle = R(-22918) => ret.revolutions = -1

\* C18: kinematics.transform_to_pipi, the revision on the floored %
\* operator, returns an angle in the closed interval [-pi, pi] for every
\* input angle, negative inputs included.
C18_KinematicsOutputInPiPi ==
    op = "kinematics.transform_to_pipi" =>
        /\ RLe(R(-pi), ret.output_angle)
        /\ RLe(ret.output_angle, R(pi))

\* C19: for every dividend and every divisor that is not zero,
\* truncated_remainder returns r with r zero or of the sign of the dividend,
\* |r| < |divisor| and dividend = divisor*t + r for t the quotient
\* dividend/divisor truncated toward zero; truncated_remainder(-5, 2) is -1.
C19_TruncatedRemainder ==
    (op = "truncated_remainder" /\ args.divisor # R(0)) =>
        LET r == ret.remainder
            t == int(RDiv(args.dividend, args.divisor))
        IN  /\ ret.raised = "none"
            /\ Sign(r) = 0 \/ Sign(r) = Sign(args.dividend)
            /\ RLt(RAbs(r), RAbs(args.divisor))
            /\ args.dividend = RAdd(RMul(args.divisor, R(t)), r)
            /\ (args.dividend = R(-5) /\ args.divisor = R(2)) => r = R(-1)

\* truncated_remainder(-5, 2) has returned -1.
C19_Witness ==
    /\ op = "truncated_remainder"
    /\ args.dividend = R(-5) /\ args.divisor = R(2)
    /\ ret.raised = "none"
    /\ ret.remainder = R(-1)

\* k_pos and k_neg of the four thruster types, in tenths.
ImcaFactors ==
    [tunnel |-> <<110, -110>>, azimuth |-> <<130, -80>>, propeller |-> <<130, -91>>,
     waterjet |-> <<80, 0>>]

\* k * 1e-3 * 1.36332 * 9.81 * power in units of 1e-11, for k in tenths.
ImcaForce(k, power) == BScale(BScale(Big(k * power), grav), hp_per_Kw)

\* C20: for tunnel, azimuth, propeller and waterjet, imca_p2f returns
\* max_force_positive = k_pos * 1e-3 * 1.36332 * 9.81 * max_power_positive and
\* max_force_negative = k_neg * 1e-3 * 1.36332 * 9.81 * max_power_negative with
\* (k_pos, k_neg) = (11, -11), (13, -8), (13, -0.7*13), (8, 0); for equal
\* powers that are not negative the negative force is minus the positive one
\* (tunnel), -8/13 of it (azimuth), -0.7 of it (propeller), the positive force
\* is not negative and the negative force is not positive.
C20_ImcaForces ==
    (op = "imca_p2f" /\ args.thruster_type \in DOMAIN ImcaFactors) =>
        LET k == ImcaFactors[args.thruster_type]
            f == ret.max_force_positive
            g == ret.max_force_negative
        IN  /\ ret.raised = "none"
            /\ f = ImcaForce(k[1], args.max_power_positive)
            /\ g = ImcaForce(k[2], args.max_power_negative)
            /\ (args.max_power_positive = args.max_power_negative
                  /\ args.max_power_positive >= 0) =>
                  /\ args.thruster_type = "tunnel" => g = BScale(f, -1)
                  /\ args.thruster_type = "azimuth" => BScale(g, 13) = BScale(f, -8)
                  /\ args.thruster_type = "propeller" => BScale(g, 10) = BScale(f, -7)
            /\ args.max_power_positive >= 0 => BSign(f) >= 0
            /\ args.max_power_negative >= 0 => BSign(g) <= 0

\* The propeller of the unit tests: 5000 kW both ways give 869.320998 kN and
\* -608.5246986 kN.
C20_Witness ==
    /\ op = "imca_p2f" /\ args.thruster_type = "propeller"
    /\ args.max_power_positive = 5000 /\ args.max_power_negative = 5000
    /\ ret.raised = "none"
    /\ ret.max_force_positive = <<0, 9980, 9320, 86, 0, 0>>
    /\ BSign(ret.max_force_negative) = -1
    /\ BScale(ret.max_force_negative, -1) = <<0, 6986, 8524, 60, 0, 0>>

\* C21: imca_p2f called with ThrusterType.vsp, for which it has no
\* conversion factors, prints 'Illegal thruster type.' and exits with status
\* 2; it returns no pair of forces.
C21_IllegalThrusterType ==
    (op = "imca_p2f" /\ args.thruster_type = "vsp") =>
        /\ ret.raised = "SystemExit"
        /\ ret.status = 2
        /\ ret.printed = "Illegal thruster type."
        /\ "max_force_positive" \notin DOMAIN ret
        /\ "max_force_negative" \notin DOMAIN ret

\* imca_p2f has been called for a Voith Schneider propeller with the powers
\* of the tunnel thruster test and has exited.
C21_Witness ==
    /\ op = "imca_p2f" /\ args.thruster_type = "vsp"
    /\ args.max_power_positive = 880 /\ args.max_power_negative = 880
    /\ ret.raised = "SystemExit" /\ ret.status = 2

\* wind_forces_and_moment has called blendermann and got its coefficients.
CalledBlendermann ==
    /\ op = "wind_forces_and_moment"
    /\ args.coeffs = "blendermann" /\ args.vessel_type # None
    /\ ret.raised = "none"

\* C23: whenever wind_forces_and_moment calls blendermann, with an angle of
\* attack in (0, 2*pi], CDl is CDl_0 * frontal_area / lateral_area when the
\* cosine of the angle is >= 0 (wind from the bow-on hemisphere) and
\* CDl_pi * frontal_area / lateral_area when it is < 0 (stern-on hemisphere).
C23_HemisphereOverFullCircle ==
    CalledBlendermann =>
        LET a == ret.angle_of_attack
            b == SelectedModel(args, a)
            scale == RDiv(args.frontal_area, args.lateral_area)
        IN  /\ 0 < a /\ a <= 2 * pi
            /\ RLe(R(0), cos(a)) => b.CDl = RMul(b.CDl_0, scale)
            /\ RLt(cos(a), R(0)) => b.CDl = RMul(b.CDl_pi, scale)

\* wind_forces_and_moment has called isherwood and got its coefficients.
CalledIsherwood ==
    /\ op = "wind_forces_and_moment"
    /\ args.coeffs = "isherwood" /\ ~MissingParameter(args)
    /\ ret.raised = "none"

\* C24: for every angle of attack in (pi, 2*pi] that wind_forces_and_moment
\* hands to isherwood, all coefficients come from the 180-degree rows of the
\* tables: C_Y = 0, C_N = 0 and C_X is its value at exactly 180 degrees for
\* the same geometry, so the sway force and the yaw moment are zero.
C24_BeyondPiUsesLastRow ==
    (CalledIsherwood /\ pi < ret.angle_of_attack /\ ret.angle_of_attack <= 2 * pi) =>
        LET there == SelectedModel(args, ret.angle_of_attack)
            stern == SelectedModel(args, pi)
        IN  /\ RLt(R(180), there.angle_deg)
            /\ there.A = [i \in 1..7 |-> Rat(surge_coefficients[19][i + 1], 10000)]
            /\ there.B = [i \in 1..7 |-> R(0)]
            /\ there.C = [i \in 1..6 |-> R(0)]
            /\ ret.C_Y = R(0)
            /\ ret.C_N = <<R(0)>>
            /\ ret.C_X = stern.C_X
            /\ ProductIsZero(ret.wind_forces_and_moment[2])
            /\ ProductIsZero(ret.wind_forces_and_moment[3])

\* A wind on the quarter from the other side (angle of attack beyond 270
\* degrees), blowing, with a surge coefficient that is not zero.
C24_Witness ==
    /\ CalledIsherwood
    /\ 3 * (pi \div 2) < ret.angle_of_attack /\ ret.angle_of_attack < 2 * pi
    /\ ret.relative_velocity_sway # R(0)
    /\ ret.C_X # R(0)
    /\ ret.C_Y = R(0)

\* C25: for every member of CoefficientType passed as coeffs (blendermann,
\* hughes, isherwood) with the parameters that member needs (for blendermann
\* a vessel type of its table),
\* wind_forces_and_moment has C_X, C_Y and C_N bound when it computes the
\* forces and returns a vector of three components.
C25_EveryMemberBinds ==
    (/\ op = "wind_forces_and_moment"
     /\ args.coeffs \in {"blendermann", "hughes", "isherwood"}
     /\ ~MissingParameter(args)
     /\ args.coeffs = "blendermann" => args.vessel_type[1] \in VesselTypes) =>
        /\ ret.raised # "UnboundLocalError"
        /\ ret.raised = "none" => Len(ret.wind_forces_and_moment) = 3

\* C26: blendermann, isherwood, calculate_rho_w and wind_forces_and_moment
\* of util/wind.py return, or raise, for every input the same as the
\* functions of the same name of util/wind/wind_coefficients.py and
\* util/wind/wind_forces.py; in particular C_Y has the same sign in both.
C26_RevisionsAgree ==
    op \in {"revisions.blendermann", "revisions.isherwood",
            "revisions.calculate_rho_w", "revisions.wind_forces_and_moment"} =>
        ret.wind_py = ret.wind

\* blendermann of both revisions called with a beam wind from starboard: both
\* give a sway coefficient below zero.
C26_Witness ==
    /\ op = "revisions.blendermann"
    /\ args.angle_of_attack = pi \div 2
    /\ ret.wind.raised = "none" /\ ret.wind_py.raised = "none"
    /\ RLt(ret.wind.C_Y, R(0))
    /\ RLt(ret.wind_py.C_Y, R(0))

\* A call of mjtg has returned.
CalledMjtg == op = "mjtg" /\ ret.raised = "none"

\* C22: the trajectory returned by mjtg, when it is not empty, ends at
\* setpoint.
C22_EndsAtSetpoint ==
    (CalledMjtg /\ ret.trajectory # <<>>) =>
        ret.trajectory[Len(ret.trajectory)] = args.setpoint

\* The minimum-jerk polynomial 10 s^3 - 15 s^4 + 6 s^5 in Horner form, and
\* its derivative 30 s^2 (1 - s)^2.
MinimumJerk(s) ==
    RMul(RPow(s, 3), RAdd(R(10), RMul(s, RAdd(R(-15), RMul(R(6), s)))))

MinimumJerkRate(s) == RMul(R(30), RMul(RSq(s), RSq(RSub(R(1), s))))

\* The number of elements the claim gives for int(move_time * frequency) = n.
ExpectedLength(n) == IF n >= 1 THEN n - 1 ELSE 0

\* C27: both lists returned by mjtg have the length
\* int(move_time * frequency) - 1 (0 when that number is below 1), and the
\* element at 0-based index k of each is the value for time step k + 1: the
\* position and the velocity of the minimum-jerk motion at
\* s = (k + 1) / int(move_time * frequency).
C27_OneElementPerTimeStep ==
    CalledMjtg =>
        LET timefreq == int(RMul(args.move_time, args.frequency))
            distance == RSub(args.setpoint, args.current)
        IN  /\ Len(ret.trajectory) = ExpectedLength(timefreq)
            /\ Len(ret.trajectory_derivative) = ExpectedLength(timefreq)
            /\ \A k \in 0..(ExpectedLength(timefreq) - 1) :
                   LET s == Rat(k + 1, timefreq)
                   IN  /\ ret.trajectory[k + 1] =
                              RAdd(args.current, RMul(distance, MinimumJerk(s)))
                       /\ ret.trajectory_derivative[k + 1] =
                              RMul(RMul(args.frequency, distance),
                                   RDiv(MinimumJerkRate(s), R(timefreq)))

C27_Witness ==
    /\ CalledMjtg
    /\ args.current = R(15) /\ args.setpoint = R(27)
    /\ args.frequency = R(2) /\ args.move_time = R(2)
    /\ Len(ret.trajectory) = 3 /\ Len(ret.trajectory_derivative) = 3
    /\ ret.trajectory[2] = R(21)
    /\ ret.trajectory_derivative[2] = Rat(45, 4)

\* Order in the direction of the motion: upwards for 1, downwards for -1.
Before(direction, a, b) == IF direction > 0 THEN RLt(a, b) ELSE RLt(b, a)

\* The trajectory lies strictly between its ends and moves strictly towards
\* setpoint.
Towards(direction) ==
    /\ \A k \in DOMAIN ret.trajectory :
           /\ Before(direction, args.current, ret.trajectory[k])
           /\ Before(direction, ret.trajectory[k], args.setpoint)
    /\ \A k \in 1..(Len(ret.trajectory) - 1) :
           Before(direction, ret.trajectory[k], ret.trajectory[k + 1])

\* Every derivative has the given sign (1, 0 or -1).
DerivativeSign(sign) ==
    \A k \in DOMAIN ret.trajectory_derivative : Sign(ret.trajectory_derivative[k]) = sign

Stationary ==
    /\ \A k \in DOMAIN ret.trajectory : ret.trajectory[k] = args.current
    /\ DerivativeSign(0)

\* C28 as stated, for every frequency: for setpoint > current the elements
\* lie strictly between current and setpoint, increase strictly, and the
\* derivatives are strictly positive (mirrored for setpoint < current, all
\* constant for setpoint = current).
C28_MonotoneForEveryFrequency ==
    CalledMjtg =>
        /\ RLt(args.current, args.setpoint) => Towards(1) /\ DerivativeSign(1)
        /\ RLt(args.setpoint, args.current) => Towards(-1) /\ DerivativeSign(-1)
        /\ args.setpoint = args.current => Stationary

\* C28 amended: for every frequency the elements lie strictly between
\* current and setpoint and move strictly towards setpoint (increase for
\* setpoint > current, decrease for setpoint < current); the derivatives
\* have the sign of the motion for a positive frequency and the opposite
\* sign for a negative one; for setpoint = current all elements equal
\* current and all derivatives are 0.
C28_MonotoneWithSignedDerivative ==
    CalledMjtg =>
        /\ RLt(args.current, args.setpoint) =>
               Towards(1) /\ DerivativeSign(Sign(args.frequency))
        /\ RLt(args.setpoint, args.current) =>
               Towards(-1) /\ DerivativeSign(-Sign(args.frequency))
        /\ args.setpoint = args.current => Stationary

\* mjtg(15.0, 27.0, -1.0, -3.0): the trajectory rises from 17.52 to 24.48
\* and both derivatives are -5.93.
C28_Witness ==
    /\ CalledMjtg
    /\ args.current = R(15) /\ args.setpoint = R(27)
    /\ args.frequency = R(-1) /\ args.move_time = R(-3)
    /\ ret.trajectory = <<Rat(473, 27), Rat(661, 27)>>
    /\ ret.trajectory_derivative = <<Rat(-160, 27), Rat(-160, 27)>>

\* C29: for a non-empty input series lowpass_filter returns a series of the
\* length of its input.
C29_SameLength ==
    (op = "lowpass_filter" /\ args.input_series # <<>> /\ ret.raised = "none") =>
        Len(ret.output_series) = Len(args.input_series)

\* The squared length of the first two components.
PlanarNorm(v) == RAdd(RSq(v[1]), RSq(v[2]))

\* C30: each rotation returns, is undone by the other, leaves the third
\* component (the heading) as it is and preserves the length of the first
\* two.
C30_RotationsRoundTrip ==
    /\ op = "rotate_NED_to_BODY" =>
           /\ ret.raised = "none"
           /\ LET back == rotate_BODY_to_NED(ret.coords_BODY, ret.container, ret.ragged)
              IN  back.raised = "none" /\ back.coords_NED = args.coords_NED
           /\ ret.coords_BODY[3] = args.coords_NED[3]
           /\ PlanarNorm(ret.coords_BODY) = PlanarNorm(args.coords_NED)
    /\ op = "rotate_BODY_to_NED" =>
           /\ ret.raised = "none"
           /\ LET back == rotate_NED_to_BODY(ret.coords_NED, ret.container, ret.ragged)
              IN  back.raised = "none" /\ back.coords_BODY = args.coords_BODY
           /\ ret.coords_NED[3] = args.coords_BODY[3]
           /\ PlanarNorm(ret.coords_NED) = PlanarNorm(args.coords_BODY)

====
